---- MODULE Spec2Model ----
(***************************************************************************)
(* A model of the regex-to-automaton pipeline of the `turn` workspace:     *)
(*   - the matcher algebra        (turn_utils/src/matchers.rs,             *)
(*                                 turn_utils/src/set_ordering.rs)         *)
(*   - the regex parser           (turn_regex_syntax/src/parser.rs)        *)
(*   - the category registry      (turn_utils/src/regex/convert.rs)        *)
(*   - the Thompson FSA builder   (turn_utils/src/regex/fsa.rs)            *)
(* Every subsystem has its own specification over the shared variables;    *)
(* the variables of the other subsystems stay at their idle value.         *)
(***************************************************************************)
EXTENDS Integers, Sequences, FiniteSets, TLC

VARIABLES
    pc,            \* position of the driver: "start", "done", ...
    lhs,           \* matcher algebra: left operand
    rhs,           \* matcher algebra: right operand
    third,         \* matcher algebra: third operand (transitivity)
    ord,           \* matcher algebra: the orderings computed by the last comparison
    tokens,        \* parser: the terminal stream handed to parse_regex;
                   \* lexer: history, the tokens next_token returned so far
    hir,           \* parser: the value parse_regex returned
    source_text,   \* lexer: the input of the Lexer, a sequence of characters
    reader,        \* lexer: the TextReader (characters read, position)
    lexed,         \* lexer: the last call of next_token (reader before, value returned)
    given,         \* registry: history, the `categories` argument as it was passed
    categories,    \* registry: the `categories` map of convert_categories (shrinks)
    dependencies,  \* registry: the `dependencies` map of convert_categories
    registry,      \* registry: registry.categories
    rounds,        \* registry: history, free_categories of every round, as iterated
    result,        \* registry: "running", "Ok" or "Err"
    mir,           \* FSA builder: the MIR tree handed to FSA::from_mir
    fsa,           \* FSA builder: the automaton built (a sequence of states)
    sources,       \* automata: the literal token rules / the DFA as it was handed in
    automaton,     \* automata: the FSA that FSA::union returned
    dfsa,          \* automata: the DFSA (self of remove_unreachable_states)
    prune          \* automata: the locals of remove_unreachable_states

ordVars == <<lhs, rhs, third, ord>>
parseVars == <<tokens, hir, source_text, reader, lexed>>
convVars == <<given, categories, dependencies, registry, rounds, result>>
fsaVars == <<mir, fsa, sources, automaton, dfsa, prune>>
vars == <<pc, lhs, rhs, third, ord, tokens, hir, source_text, reader, lexed, given, categories, dependencies,
          registry, rounds, result, mir, fsa, sources, automaton, dfsa, prune>>

Idle == "idle"

OrdIdle == lhs = Idle /\ rhs = Idle /\ third = Idle /\ ord = Idle
ParseIdle ==
    /\ tokens = <<>> /\ hir = Idle
    /\ source_text = Idle /\ reader = Idle /\ lexed = Idle
ConvIdle ==
    /\ given = Idle /\ categories = Idle /\ dependencies = Idle /\ registry = Idle
    /\ rounds = <<>> /\ result = Idle
FsaIdle ==
    /\ mir = Idle /\ fsa = Idle
    /\ sources = Idle /\ automaton = Idle /\ dfsa = Idle /\ prune = Idle

(***************************************************************************)
(* Bounds of the model.                                                    *)
(***************************************************************************)
MaxExcluded == 2   \* longest exclusion list of a NegatedSet operand
MaxTokens == 4     \* longest terminal stream handed to parse_regex
MaxMembers == 2    \* most members of a category body handed to convert_categories
MaxRepeat == 2     \* largest min / max of a Repetition handed to FSA::from_mir
MaxWord == 3       \* longest word the automata are run on
MaxBelow == 2      \* how far below u16::MAX the bounds of a long Repetition are drawn

\* u16::MAX, the largest min / max a Repetition can hold
U16_MAX == 65535

(***************************************************************************)
(* Characters.  One representative per cell of the partition of `char`     *)
(* that the fifteen categories' predicates induce.                         *)
(***************************************************************************)
Chars ==
    { "a",        \* ASCII lowercase, hexadecimal digit
      "g",        \* ASCII lowercase, no hexadecimal digit
      "A",        \* ASCII uppercase, hexadecimal digit
      "G",        \* ASCII uppercase, no hexadecimal digit
      "0",        \* binary digit
      "7",        \* decimal digit, not binary
      " ",        \* ASCII whitespace
      "U+00A0",   \* NO-BREAK SPACE: whitespace, not ASCII
      "U+03B1",   \* GREEK SMALL LETTER ALPHA: lowercase, not ASCII
      "U+0391",   \* GREEK CAPITAL LETTER ALPHA: uppercase, not ASCII
      "U+05D0",   \* HEBREW LETTER ALEF: alphabetic, neither case
      "U+00BD",   \* VULGAR FRACTION ONE HALF: numeric, not a decimal digit
      "-" }       \* in no category but Any

(***************************************************************************)
(* enum CharacterCategory, in declaration order.                           *)
(***************************************************************************)
CharacterCategory ==
    << "ASCIILowercase", "ASCIIUppercase", "ASCIIAlpha", "ASCIIBinaryDigit",
       "ASCIIDigit", "ASCIIHexDigit", "ASCIIAlphanumeric", "ASCIIWhitespace",
       "Utf8Lowercase", "Utf8Uppercase", "Utf8Alpha", "Utf8Numeric",
       "Utf8Alphanumeric", "Utf8Whitespace", "Any" >>

Categories == { CharacterCategory[i] : i \in DOMAIN CharacterCategory }

\* `*self as usize`
CategoryIndex(c) == CHOOSE i \in DOMAIN CharacterCategory : CharacterCategory[i] = c

\* CharacterCategory::is_matching: the characters of Chars each predicate accepts
CharacterCategory_is_matching(category, c) ==
    CASE category = "ASCIILowercase"    -> c \in {"a", "g"}
      [] category = "ASCIIUppercase"    -> c \in {"A", "G"}
      [] category = "ASCIIAlpha"        -> c \in {"a", "g", "A", "G"}
      [] category = "ASCIIBinaryDigit"  -> c = "0"
      [] category = "ASCIIDigit"        -> c \in {"0", "7"}
      [] category = "ASCIIHexDigit"     -> c \in {"0", "7", "a", "A"}
      [] category = "ASCIIAlphanumeric" -> c \in {"a", "g", "A", "G", "0", "7"}
      [] category = "ASCIIWhitespace"   -> c = " "
      [] category = "Utf8Lowercase"     -> c \in {"a", "g", "U+03B1"}
      [] category = "Utf8Uppercase"     -> c \in {"A", "G", "U+0391"}
      [] category = "Utf8Alpha"         ->
            c \in {"a", "g", "A", "G", "U+03B1", "U+0391", "U+05D0"}
      [] category = "Utf8Numeric"       -> c \in {"0", "7", "U+00BD"}
      [] category = "Utf8Alphanumeric"  ->
            c \in {"a", "g", "A", "G", "U+03B1", "U+0391", "U+05D0",
                   "0", "7", "U+00BD"}
      [] category = "Utf8Whitespace"    -> c \in {" ", "U+00A0"}
      [] category = "Any"               -> TRUE

(***************************************************************************)
(* Matchers.  A SingleMatcher is <<"Character", c>> or <<"Category", tag>>;*)
(* a Matcher is <<"SingleMatcher", s>> or <<"NegatedSet", list>>.          *)
(***************************************************************************)
Character(c) == <<"Character", c>>
Category(c) == <<"Category", c>>
SingleMatcher(s) == <<"SingleMatcher", s>>
NegatedSet(list) == <<"NegatedSet", list>>

SingleMatchers == { Character(c) : c \in Chars } \cup { Category(c) : c \in Categories }

\* SingleMatcher::is_matching
SingleMatcher_is_matching(s, c) ==
    IF s[1] = "Character" THEN c = s[2]
    ELSE CharacterCategory_is_matching(s[2], c)

\* Matcher::is_matching
Matcher_is_matching(m, c) ==
    IF m[1] = "SingleMatcher" THEN SingleMatcher_is_matching(m[2], c)
    ELSE \A i \in DOMAIN m[2] : ~SingleMatcher_is_matching(m[2][i], c)

(***************************************************************************)
(* impl SetOrdering for CharacterCategory: the arms of the match, as the   *)
(* pairs that yield Some(Less) and the pairs that yield Some(Greater).     *)
(* No pair is in both, so the order of the arms does not matter.           *)
(***************************************************************************)
LessArms ==
    { <<"ASCIIAlphanumeric", "Utf8Alphanumeric">>,
      <<"ASCIIAlpha", "ASCIIAlphanumeric">>, <<"ASCIIAlpha", "Utf8Alphanumeric">>,
      <<"ASCIIAlpha", "Utf8Alpha">>,
      <<"ASCIIBinaryDigit", "ASCIIAlphanumeric">>, <<"ASCIIBinaryDigit", "ASCIIDigit">>,
      <<"ASCIIBinaryDigit", "ASCIIHexDigit">>, <<"ASCIIBinaryDigit", "Utf8Alphanumeric">>,
      <<"ASCIIBinaryDigit", "Utf8Numeric">>,
      <<"ASCIIDigit", "ASCIIAlphanumeric">>, <<"ASCIIDigit", "ASCIIHexDigit">>,
      <<"ASCIIDigit", "Utf8Alphanumeric">>, <<"ASCIIDigit", "Utf8Numeric">>,
      <<"ASCIIHexDigit", "ASCIIAlphanumeric">>, <<"ASCIIHexDigit", "Utf8Alphanumeric">>,
      <<"ASCIILowercase", "ASCIIAlphanumeric">>, <<"ASCIILowercase", "ASCIIAlpha">>,
      <<"ASCIILowercase", "Utf8Alphanumeric">>, <<"ASCIILowercase", "Utf8Alpha">>,
      <<"ASCIILowercase", "Utf8Lowercase">>,
      <<"ASCIIUppercase", "ASCIIAlphanumeric">>, <<"ASCIIUppercase", "ASCIIAlpha">>,
      <<"ASCIIUppercase", "Utf8Alphanumeric">>, <<"ASCIIUppercase", "Utf8Alpha">>,
      <<"ASCIIUppercase", "Utf8Uppercase">>,
      <<"ASCIIWhitespace", "Utf8Whitespace">>,
      <<"Utf8Alpha", "Utf8Alphanumeric">>,
      <<"Utf8Lowercase", "Utf8Alphanumeric">>, <<"Utf8Lowercase", "Utf8Alpha">>,
      <<"Utf8Numeric", "Utf8Alphanumeric">>,
      <<"Utf8Uppercase", "Utf8Alphanumeric">>, <<"Utf8Uppercase", "Utf8Alpha">> }

GreaterArms ==
    { <<"ASCIIAlphanumeric", "ASCIIAlpha">>, <<"ASCIIAlphanumeric", "ASCIIBinaryDigit">>,
      <<"ASCIIAlphanumeric", "ASCIIDigit">>, <<"ASCIIAlphanumeric", "ASCIIHexDigit">>,
      <<"ASCIIAlphanumeric", "ASCIILowercase">>, <<"ASCIIAlphanumeric", "ASCIIUppercase">>,
      <<"ASCIIAlpha", "ASCIILowercase">>, <<"ASCIIAlpha", "ASCIIUppercase">>,
      <<"ASCIIDigit", "ASCIIBinaryDigit">>,
      <<"ASCIIHexDigit", "ASCIIBinaryDigit">>, <<"ASCIIHexDigit", "ASCIIDigit">>,
      <<"Utf8Alphanumeric", "ASCIIAlphanumeric">>, <<"Utf8Alphanumeric", "ASCIIAlpha">>,
      <<"Utf8Alphanumeric", "ASCIIBinaryDigit">>, <<"Utf8Alphanumeric", "ASCIIDigit">>,
      <<"Utf8Alphanumeric", "ASCIIHexDigit">>, <<"Utf8Alphanumeric", "ASCIILowercase">>,
      <<"Utf8Alphanumeric", "ASCIIUppercase">>, <<"Utf8Alphanumeric", "Utf8Alpha">>,
      <<"Utf8Alphanumeric", "Utf8Lowercase">>, <<"Utf8Alphanumeric", "Utf8Numeric">>,
      <<"Utf8Alphanumeric", "Utf8Uppercase">>,
      <<"Utf8Alpha", "ASCIIAlpha">>, <<"Utf8Alpha", "ASCIILowercase">>,
      <<"Utf8Alpha", "ASCIIUppercase">>, <<"Utf8Alpha", "Utf8Lowercase">>,
      <<"Utf8Alpha", "Utf8Uppercase">>,
      <<"Utf8Lowercase", "ASCIILowercase">>,
      <<"Utf8Numeric", "ASCIIBinaryDigit">>, <<"Utf8Numeric", "ASCIIDigit">>,
      <<"Utf8Uppercase", "ASCIIUppercase">>,
      <<"Utf8Whitespace", "ASCIIWhitespace">> }

\* the table with the arm (ASCIIBinaryDigit, ASCIIHexDigit) and its mirror left out
CharacterCategory_set_ordering_NoBinHex(x, y) ==
    IF x = y THEN "Equal"
    ELSE IF <<x, y>> \in LessArms \ {<<"ASCIIBinaryDigit", "ASCIIHexDigit">>} THEN "Less"
    ELSE IF <<x, y>> \in GreaterArms \ {<<"ASCIIHexDigit", "ASCIIBinaryDigit">>}
         THEN "Greater"
    ELSE "None"

\* <CharacterCategory as SetOrdering>::set_ordering
CharacterCategory_set_ordering(x, y) ==
    IF x = y THEN "Equal"
    ELSE IF <<x, y>> \in LessArms THEN "Less"
    ELSE IF <<x, y>> \in GreaterArms THEN "Greater"
    ELSE "None"

\* Character vs Category answers Less also when the category does not match
SingleMatcher_set_ordering_AlwaysLess(a, b) ==
    CASE a[1] = "Character" /\ b[1] = "Character" ->
            IF a[2] = b[2] THEN "Equal" ELSE "None"
      [] a[1] = "Character" /\ b[1] = "Category" -> "Less"
      [] a[1] = "Category" /\ b[1] = "Character" ->
            IF CharacterCategory_is_matching(a[2], b[2]) THEN "Greater" ELSE "None"
      [] a[1] = "Category" /\ b[1] = "Category" ->
            CharacterCategory_set_ordering(a[2], b[2])

\* <SingleMatcher as SetOrdering>::set_ordering
SingleMatcher_set_ordering(a, b) ==
    CASE a[1] = "Character" /\ b[1] = "Character" ->
            IF a[2] = b[2] THEN "Equal" ELSE "None"
      [] a[1] = "Character" /\ b[1] = "Category" ->
            IF CharacterCategory_is_matching(b[2], a[2]) THEN "Less" ELSE "None"
      [] a[1] = "Category" /\ b[1] = "Character" ->
            IF CharacterCategory_is_matching(a[2], b[2]) THEN "Greater" ELSE "None"
      [] a[1] = "Category" /\ b[1] = "Category" ->
            CharacterCategory_set_ordering(a[2], b[2])

\* the closure is_superset of the NegatedSet/NegatedSet arm
is_superset(l, r) ==
    \A i \in DOMAIN l : \E j \in DOMAIN r :
        SingleMatcher_set_ordering(l[i], r[j]) \in {"Equal", "Less"}

\* the (SingleMatcher, NegatedSet) and (NegatedSet, SingleMatcher) arms' condition
any_comparable(single, negated_set) ==
    \E i \in DOMAIN negated_set :
        SingleMatcher_set_ordering(single, negated_set[i]) # "None"

\* the NegatedSet/NegatedSet arm with Greater and Less exchanged
NegatedSet_set_ordering_Swapped(l, r) ==
    CASE is_superset(l, r) /\ is_superset(r, l)   -> "Equal"
      [] is_superset(l, r) /\ ~is_superset(r, l)  -> "Less"
      [] ~is_superset(l, r) /\ is_superset(r, l)  -> "Greater"
      [] OTHER                                    -> "None"

\* the NegatedSet/NegatedSet arm of <Matcher as SetOrdering>::set_ordering
NegatedSet_set_ordering(l, r) ==
    CASE is_superset(l, r) /\ is_superset(r, l)   -> "Equal"
      [] is_superset(l, r) /\ ~is_superset(r, l)  -> "Greater"
      [] ~is_superset(l, r) /\ is_superset(r, l)  -> "Less"
      [] OTHER                                    -> "None"

\* the NegatedSet/NegatedSet arm answers None for an empty exclusion list
Matcher_set_ordering_EmptyNone(a, b) ==
    CASE a[1] = "SingleMatcher" /\ b[1] = "SingleMatcher" ->
            SingleMatcher_set_ordering(a[2], b[2])
      [] a[1] = "SingleMatcher" /\ b[1] = "NegatedSet" ->
            IF any_comparable(a[2], b[2]) THEN "None" ELSE "Less"
      [] a[1] = "NegatedSet" /\ b[1] = "SingleMatcher" ->
            IF any_comparable(b[2], a[2]) THEN "None" ELSE "Greater"
      [] a[1] = "NegatedSet" /\ b[1] = "NegatedSet" ->
            IF a[2] = <<>> \/ b[2] = <<>> THEN "None"
            ELSE NegatedSet_set_ordering(a[2], b[2])

\* <Matcher as SetOrdering>::set_ordering
Matcher_set_ordering(a, b) ==
    CASE a[1] = "SingleMatcher" /\ b[1] = "SingleMatcher" ->
            SingleMatcher_set_ordering(a[2], b[2])
      [] a[1] = "SingleMatcher" /\ b[1] = "NegatedSet" ->
            IF any_comparable(a[2], b[2]) THEN "None" ELSE "Less"
      [] a[1] = "NegatedSet" /\ b[1] = "SingleMatcher" ->
            IF any_comparable(b[2], a[2]) THEN "None" ELSE "Greater"
      [] a[1] = "NegatedSet" /\ b[1] = "NegatedSet" ->
            NegatedSet_set_ordering(a[2], b[2])

(***************************************************************************)
(* The operands the comparisons are drawn from: every single matcher, and  *)
(* the negated sets whose exclusion lists (repetitions allowed) of at most *)
(* MaxExcluded members are taken from ExcludedPool.                        *)
(***************************************************************************)
ExcludedPool ==
    { Character("a"), Character("g"), Category("ASCIIAlpha"),
      Category("ASCIIHexDigit"), Category("Utf8Alpha"), Category("Any"),
      Category("ASCIIWhitespace"), Category("Utf8Whitespace") }

SeqsUpTo(S, n) == UNION { [1..k -> S] : k \in 0..n }

Matchers ==
    { SingleMatcher(s) : s \in SingleMatchers }
        \cup { NegatedSet(l) : l \in SeqsUpTo(ExcludedPool, MaxExcluded) }

CategoryMatchers == { SingleMatcher(Category(c)) : c \in Categories }

(***************************************************************************)
(* Specification SpecMatcher: two matchers are drawn and compared both     *)
(* ways round.                                                             *)
(***************************************************************************)
InitMatcher ==
    /\ pc = "start"
    /\ lhs \in Matchers
    /\ rhs = lhs /\ third = lhs /\ ord = Idle
    /\ ParseIdle /\ ConvIdle /\ FsaIdle

Compare ==
    /\ pc = "start"
    /\ \E b \in Matchers :
          /\ rhs' = b
          /\ ord' = [ab |-> Matcher_set_ordering(lhs, b),
                     ba |-> Matcher_set_ordering(b, lhs)]
    /\ pc' = "done"
    /\ UNCHANGED <<lhs, third, parseVars, convVars, fsaVars>>

NextMatcher == Compare

SpecMatcher == InitMatcher /\ [][NextMatcher]_vars

(***************************************************************************)
(* Specification SpecCategory: three built-in categories are drawn and     *)
(* compared pairwise.                                                      *)
(***************************************************************************)
InitCategory ==
    /\ pc = "start"
    /\ lhs \in CategoryMatchers
    /\ rhs = lhs /\ third = lhs /\ ord = Idle
    /\ ParseIdle /\ ConvIdle /\ FsaIdle

CompareCategories ==
    /\ pc = "start"
    /\ \E b \in CategoryMatchers, c \in CategoryMatchers :
          /\ rhs' = b
          /\ third' = c
          /\ ord' = [ab |-> Matcher_set_ordering(lhs, b),
                     ba |-> Matcher_set_ordering(b, lhs),
                     bc |-> Matcher_set_ordering(b, c),
                     ac |-> Matcher_set_ordering(lhs, c)]
    /\ pc' = "done"
    /\ UNCHANGED <<lhs, parseVars, convVars, fsaVars>>

NextCategory == CompareCategories

SpecCategory == InitCategory /\ [][NextCategory]_vars

(***************************************************************************)
(* Properties of the matcher algebra.                                      *)
(***************************************************************************)
IsSingle(m) == m[1] = "SingleMatcher"
IsNegated(m) == m[1] = "NegatedSet"

\* C5: for all matchers a and b, set_ordering(a, b) is Less iff set_ordering(b, a)
\* is Greater, Equal iff Equal, and None iff None.
C5_Duality ==
    pc = "done" =>
        /\ ord.ab = "Less" <=> ord.ba = "Greater"
        /\ ord.ab = "Equal" <=> ord.ba = "Equal"
        /\ ord.ab = "None" <=> ord.ba = "None"

\* a category compared with a negated set that excludes nothing it overlaps
C5_Witness ==
    /\ pc = "done"
    /\ lhs = SingleMatcher(Category("Utf8Numeric"))
    /\ rhs = NegatedSet(<<Character("a"), Category("ASCIIAlpha")>>)
    /\ ord.ab = "Less" /\ ord.ba = "Greater"

\* C6: set_ordering(a, a) = Equal for every matcher a (characters, the 15 categories,
\* negated sets, also with an empty exclusion list or with repeated members).
C6_Reflexive ==
    (pc = "done" /\ lhs = rhs) => ord.ab = "Equal"

\* a negated set with a repeated member compared with itself
C6_Witness ==
    /\ pc = "done"
    /\ lhs = rhs
    /\ lhs = NegatedSet(<<Category("ASCIIAlpha"), Category("ASCIIAlpha")>>)
    /\ ord.ab = "Equal"

\* C7: Any is the universal superset: for every other built-in category c,
\* set_ordering(Any, c) = Greater and set_ordering(c, Any) = Less.
C7_AnyUniversal ==
    (/\ pc = "done"
     /\ lhs = SingleMatcher(Category("Any"))
     /\ rhs \in CategoryMatchers \ {lhs})
        => (ord.ab = "Greater" /\ ord.ba = "Less")

\* every character the single matcher s accepts is accepted by the negated set n,
\* that is, no excluded member of n accepts a character that s accepts
NothingExcluded(s, n) ==
    \A c \in Chars : SingleMatcher_is_matching(s, c) => Matcher_is_matching(n, c)

\* C8: for a single matcher s and a negated set N, set_ordering(s, N) is Less exactly
\* when no character accepted by s is accepted by an excluded member of N, and None
\* otherwise; set_ordering(N, s) is Greater under the same condition, None otherwise.
C8_SingleVsNegated ==
    (pc = "done" /\ IsSingle(lhs) /\ IsNegated(rhs)) =>
        /\ ord.ab = (IF NothingExcluded(lhs[2], rhs) THEN "Less" ELSE "None")
        /\ ord.ba = (IF NothingExcluded(lhs[2], rhs) THEN "Greater" ELSE "None")

\* every member of the list l is subset-or-equal to some member of the list r
EachBelowSome(l, r) ==
    \A i \in DOMAIN l : \E j \in DOMAIN r :
        SingleMatcher_set_ordering(l[i], r[j]) \in {"Less", "Equal"}

\* C9 as stated: whenever every member of L is subset-or-equal to some member of R,
\* set_ordering(NegatedSet(L), NegatedSet(R)) is Less or Equal; symmetrically for
\* the reverse direction; None when neither direction holds.
C9_Original ==
    (pc = "done" /\ IsNegated(lhs) /\ IsNegated(rhs)) =>
        /\ EachBelowSome(lhs[2], rhs[2]) => ord.ab \in {"Less", "Equal"}
        /\ EachBelowSome(rhs[2], lhs[2]) => ord.ba \in {"Less", "Equal"}
        /\ (~EachBelowSome(lhs[2], rhs[2]) /\ ~EachBelowSome(rhs[2], lhs[2]))
              => ord.ab = "None"

\* C9 amended: whenever every member of L is subset-or-equal to some member of R,
\* set_ordering(NegatedSet(L), NegatedSet(R)) is Greater or Equal (L excludes no
\* more than R); symmetrically for the reverse direction; None when neither holds.
C9_Amended ==
    (pc = "done" /\ IsNegated(lhs) /\ IsNegated(rhs)) =>
        /\ EachBelowSome(lhs[2], rhs[2]) => ord.ab \in {"Greater", "Equal"}
        /\ EachBelowSome(rhs[2], lhs[2]) => ord.ba \in {"Greater", "Equal"}
        /\ (~EachBelowSome(lhs[2], rhs[2]) /\ ~EachBelowSome(rhs[2], lhs[2]))
              => ord.ab = "None"

\* ![ASCIIAlpha] against ![Utf8Alpha, 'a']: the left list is below the right one only
C9_Witness ==
    /\ pc = "done"
    /\ lhs = NegatedSet(<<Category("ASCIIAlpha")>>)
    /\ rhs = NegatedSet(<<Category("Utf8Alpha"), Character("a")>>)
    /\ EachBelowSome(lhs[2], rhs[2]) /\ ~EachBelowSome(rhs[2], lhs[2])
    /\ ord.ab = "Greater" /\ ord.ba = "Less"

\* C10: over the 15 built-in category tags Less is transitive: if
\* set_ordering(c1, c2) = Less and set_ordering(c2, c3) = Less then
\* set_ordering(c1, c3) = Less.
C10_LessTransitive ==
    (pc = "done" /\ ord.ab = "Less" /\ ord.bc = "Less") => ord.ac = "Less"

\* ASCIIDigit < ASCIIAlphanumeric < Utf8Alphanumeric
C10_Witness ==
    /\ pc = "done"
    /\ lhs = SingleMatcher(Category("ASCIIDigit"))
    /\ rhs = SingleMatcher(Category("ASCIIAlphanumeric"))
    /\ third = SingleMatcher(Category("Utf8Alphanumeric"))
    /\ ord.ab = "Less" /\ ord.bc = "Less" /\ ord.ac = "Less"

(***************************************************************************)
(* The regex parser (turn_regex_syntax/src/parser.rs).                     *)
(*                                                                         *)
(* An item of the terminal stream is Result<Token<RegexToken>, LexicalError>:*)
(* <<"Err">> for a lexical error, otherwise the RegexToken.  Option<u16> is *)
(* <<>> for None and <<n>> for Some(n).                                    *)
(***************************************************************************)
None == <<>>
Some(x) == <<x>>

TokSequence(text) == <<"Sequence", text>>
TokAnyChar == <<"AnyChar">>
TokRepetition(min, max) == <<"Repetition", min, max>>
TokSet(members) == <<"Set", members>>
TokNegatedSet(members) == <<"NegatedSet", members>>
TokAlternation == <<"Alternation">>
TokLParenthesis == <<"LParenthesis">>
TokRParenthesis == <<"RParenthesis">>
TokSubexpression(name) == <<"Subexpression", name>>
TokErr == <<"Err">>

\* enum HIR
HIR_AnyChar == <<"AnyChar">>
HIR_Sequence(text) == <<"Sequence", text>>
HIR_SubRegex(name) == <<"SubRegex", name>>
HIR_Repetition(regex, min, max) == <<"Repetition", regex, min, max>>
HIR_Alternation(list) == <<"Alternation", list>>
HIR_Set(members) == <<"Set", members>>
HIR_NegatedSet(members) == <<"NegatedSet", members>>
HIR_Concatenation(list) == <<"Concatenation", list>>

\* the value a call returns: Ok(hir), Err(error), or a panic (unwrap of None)
Ok(h) == <<"Ok", h>>
Err(e) == <<"Err", e>>
Panic == <<"Panic", "unwrap on None">>

\* match_end / match_right_parenthesis, applied to the Option input.next() returned
terminate(term, token) ==
    IF term = "match_end" THEN token = None
    ELSE token # None /\ token[1] = TokRParenthesis

\* the tail of parse_regex_to: one term is returned as it is, else a Concatenation
Finish(regexes) ==
    IF Len(regexes) = 1 THEN regexes[1] ELSE HIR_Concatenation(regexes)

\* RegexToken::Alternation arm: the left operand is put in front of the list of a
\* right operand that is an Alternation, else the two make a new Alternation
JoinAlternatives(left, right) ==
    IF right[1] = "Alternation"
    THEN HIR_Alternation(<<left>> \o right[2])
    ELSE HIR_Alternation(<<left, right>>)

\* the Repetition arm wrapping the first term of the loop instead of the last
wrap_last_First(regexes, min, max) ==
    <<HIR_Repetition(regexes[1], min, max)>> \o SubSeq(regexes, 2, Len(regexes))

\* RegexToken::Repetition arm, regexes not empty: the last term is removed and
\* pushed back inside a Repetition
wrap_last(regexes, min, max) ==
    Append(SubSeq(regexes, 1, Len(regexes) - 1),
           HIR_Repetition(regexes[Len(regexes)], min, max))

\* parse_regex_to: `input` is what the shared iterator still holds, `regexes` the
\* terms of the loop so far.  Returns the Result and what the iterator holds after.
RECURSIVE parse_regex_to(_, _, _)
parse_regex_to(input, regexes, term) ==
    LET token == IF input = <<>> THEN None ELSE Some(Head(input))
        rest  == IF input = <<>> THEN <<>> ELSE Tail(input)
    IN
    IF terminate(term, token)
        THEN [res |-> Ok(Finish(regexes)), rest |-> rest]
    ELSE IF token = None
        THEN [res |-> Panic, rest |-> rest]
    ELSE IF token[1] = TokErr
        THEN [res |-> Err("LexicalError"), rest |-> rest]
    ELSE
    LET t == token[1] IN
    CASE t[1] = "Sequence" ->
            parse_regex_to(rest, Append(regexes, HIR_Sequence(t[2])), term)
      [] t[1] = "AnyChar" ->
            parse_regex_to(rest, Append(regexes, HIR_AnyChar), term)
      [] t[1] = "Repetition" ->
            IF regexes = <<>>
            THEN [res |-> Err("StandaloneRepetition"), rest |-> rest]
            ELSE parse_regex_to(rest, wrap_last(regexes, t[2], t[3]), term)
      [] t[1] = "Set" ->
            parse_regex_to(rest, Append(regexes, HIR_Set(t[2])), term)
      [] t[1] = "NegatedSet" ->
            parse_regex_to(rest, Append(regexes, HIR_NegatedSet(t[2])), term)
      [] t[1] = "Alternation" ->
            LET right == parse_regex_to(rest, <<>>, term) IN
            IF right.res[1] # "Ok" THEN right
            ELSE [res  |-> Ok(Finish(<<JoinAlternatives(Finish(regexes),
                                                         right.res[2])>>)),
                  rest |-> right.rest]
      [] t[1] = "LParenthesis" ->
            LET inner == parse_regex_to(rest, <<>>, "match_right_parenthesis") IN
            IF inner.res[1] # "Ok" THEN inner
            ELSE parse_regex_to(inner.rest, Append(regexes, inner.res[2]), term)
      [] t[1] = "RParenthesis" ->
            [res |-> Err("UnexpectedRParenthesis"), rest |-> rest]
      [] t[1] = "Subexpression" ->
            parse_regex_to(rest, Append(regexes, HIR_SubRegex(t[2])), term)

\* parse_regex
parse_regex(input) == parse_regex_to(input, <<>>, "match_end").res

\* the terminals the streams are made of
TokenPool ==
    { TokSequence("a"), TokAnyChar, TokRepetition(0, None), TokSet(<<"a">>),
      TokAlternation, TokLParenthesis, TokRParenthesis, TokErr }

(***************************************************************************)
(* Specification SpecParser: a terminal stream is drawn and parsed.        *)
(***************************************************************************)
InitParser ==
    /\ pc = "start"
    /\ tokens \in SeqsUpTo(TokenPool, MaxTokens)
    /\ hir = Idle
    /\ source_text = Idle /\ reader = Idle /\ lexed = Idle
    /\ OrdIdle /\ ConvIdle /\ FsaIdle

Parse ==
    /\ pc = "start"
    /\ hir' = parse_regex(tokens)
    /\ pc' = "done"
    /\ UNCHANGED <<tokens, source_text, reader, lexed, ordVars, convVars, fsaVars>>

NextParser == Parse

SpecParser == InitParser /\ [][NextParser]_vars

\* the HIR nodes directly below a node
Children(h) ==
    CASE h[1] = "Repetition" -> {h[2]}
      [] h[1] \in {"Alternation", "Concatenation"} -> { h[2][i] : i \in DOMAIN h[2] }
      [] OTHER -> {}

\* no Alternation node of h has an Alternation node as a direct child
RECURSIVE FlatAlternations(_)
FlatAlternations(h) ==
    /\ h[1] = "Alternation" => \A c \in Children(h) : c[1] # "Alternation"
    /\ \A c \in Children(h) : FlatAlternations(c)

\* C2: whenever parse_regex returns Ok, no Alternation node of the HIR has an
\* Alternation node as a direct child, whether the inner alternation is the right
\* or the left operand of `|` and whether or not it was written in parentheses.
C2_FlatAlternation ==
    (pc = "done" /\ hir[1] = "Ok") => FlatAlternations(hir[2])

(***************************************************************************)
(* The category registry (turn_utils/src/regex/convert.rs).                *)
(*                                                                         *)
(* A map is a function on its key set.  A category body (Vec<SetMember>)   *)
(* is held as the set of its members: convert_categories reads a body only *)
(* through dependencies(), which collects into a HashSet.  A member is     *)
(* Character(c) or Category(name).                                         *)
(***************************************************************************)
EmptyMap == [k \in {} |-> {}]

Remove(map, key) == [k \in DOMAIN map \ {key} |-> map[k]]

Insert(map, key, value) ==
    [k \in DOMAIN map \cup {key} |-> IF k = key THEN value ELSE map[k]]

\* builtin_categories()
builtin_categories ==
    ("lower" :> "Utf8Lowercase") @@ ("upper" :> "Utf8Uppercase")
        @@ ("alpha" :> "Utf8Alpha") @@ ("alnum" :> "Utf8Alphanumeric")
        @@ ("digit" :> "Utf8Numeric") @@ ("whitespace" :> "Utf8Whitespace")
        @@ ("a-z" :> "ASCIILowercase") @@ ("A-Z" :> "ASCIIUppercase")
        @@ ("a-Z" :> "ASCIIAlpha") @@ ("0-Z" :> "ASCIIAlphanumeric")
        @@ ("0b" :> "ASCIIBinaryDigit") @@ ("0-9" :> "ASCIIDigit")
        @@ ("0x" :> "ASCIIHexDigit") @@ (" " :> "ASCIIWhitespace")

\* fn dependencies: the names of the Category members of a body
dependencies_of(category) ==
    { x[2] : x \in { m \in category : m[1] = "Category" } }

\* the initial `dependencies` map: per key, the non-builtin names its body refers to
initial_dependencies(cats, builtin) ==
    [k \in DOMAIN cats |-> { x \in dependencies_of(cats[k]) : x \notin DOMAIN builtin }]

\* a category with at most one open dependency counts as free
free_categories_AtMostOne(deps) ==
    { k \in DOMAIN deps : Cardinality(deps[k]) <= 1 }

\* free_categories: the keys whose dependency set is empty
free_categories(deps) ==
    { k \in DOMAIN deps : deps[k] = {} }

\* create_category: each member substituted; a character stays, a builtin name
\* becomes its tag, a resolved user category is spliced in
create_category(category, reg, builtin) ==
    UNION { IF m[1] = "Character" THEN {m}
            ELSE IF m[2] \in DOMAIN builtin THEN {Category(builtin[m[2]])}
            ELSE IF m[2] \in DOMAIN reg THEN reg[m[2]]
            ELSE {} : m \in category }

\* every dependency set is emptied once a category is resolved
remove_dependency_Clear(deps, category) ==
    [k \in DOMAIN deps \ {category} |-> {}]

\* dependencies.remove(category) and dependency.remove(category) for every entry
remove_dependency(deps, category) ==
    [k \in DOMAIN deps \ {category} |-> deps[k] \ {category}]

\* the body of free_categories.iter().for_each, for one category
resolve_one(st, category, builtin) ==
    [categories   |-> Remove(st.categories, category),
     dependencies |-> remove_dependency(st.dependencies, category),
     registry     |-> Insert(st.registry, category,
                             create_category(st.categories[category],
                                             st.registry, builtin))]

\* free_categories.iter().for_each(...), in the order the Vec holds them
RECURSIVE resolve_all(_, _, _)
resolve_all(st, order, builtin) ==
    IF order = <<>> THEN st
    ELSE resolve_all(resolve_one(st, Head(order), builtin), Tail(order), builtin)

\* the orders in which a HashMap may iterate over the keys S
Orders(S) ==
    { p \in [1..Cardinality(S) -> S] : \A i, j \in DOMAIN p : p[i] = p[j] => i = j }

\* the user categories and the members their bodies are made of
CategoryNames == {"A", "B", "C"}

MemberPool ==
    { Category(n) : n \in CategoryNames } \cup { Category("digit"), Character("x") }

Bodies == { b \in SUBSET MemberPool : Cardinality(b) <= MaxMembers }

CategoryMaps == UNION { [S -> Bodies] : S \in SUBSET CategoryNames }

(***************************************************************************)
(* Specification SpecConvert: convert_categories on a drawn category map.  *)
(* pc: "start" before the dependencies map is built, "loop" at the head of *)
(* the while loop, "done" after the return.                                *)
(***************************************************************************)
InitConvert ==
    /\ pc = "start"
    /\ given \in CategoryMaps
    /\ categories = given
    /\ dependencies = EmptyMap
    /\ registry = EmptyMap
    /\ rounds = <<>>
    /\ result = "running"
    /\ OrdIdle /\ ParseIdle /\ FsaIdle

\* lines 21-37: the registry is created and the dependencies map is built
BuildDependencies ==
    /\ pc = "start"
    /\ dependencies' = initial_dependencies(categories, builtin_categories)
    /\ pc' = "loop"
    /\ UNCHANGED <<given, categories, registry, rounds, result,
                   ordVars, parseVars, fsaVars>>

\* lines 38-57: one turn of the loop that finds free categories and resolves them
ResolveRound ==
    /\ pc = "loop"
    /\ DOMAIN categories # {}
    /\ free_categories(dependencies) # {}
    /\ \E order \in Orders(free_categories(dependencies)) :
          LET st == resolve_all([categories   |-> categories,
                                 dependencies |-> dependencies,
                                 registry     |-> registry],
                                order, builtin_categories)
          IN /\ categories' = st.categories
             /\ dependencies' = st.dependencies
             /\ registry' = st.registry
             /\ rounds' = Append(rounds, order)
    /\ UNCHANGED <<pc, given, result, ordVars, parseVars, fsaVars>>

\* lines 45-48: no free category although categories remain: return Err(())
ReturnErr ==
    /\ pc = "loop"
    /\ DOMAIN categories # {}
    /\ free_categories(dependencies) = {}
    /\ result' = "Err"
    /\ pc' = "done"
    /\ UNCHANGED <<given, categories, dependencies, registry, rounds,
                   ordVars, parseVars, fsaVars>>

\* line 60: the loop has ended: return Ok(registry)
ReturnOk ==
    /\ pc = "loop"
    /\ DOMAIN categories = {}
    /\ result' = "Ok"
    /\ pc' = "done"
    /\ UNCHANGED <<given, categories, dependencies, registry, rounds,
                   ordVars, parseVars, fsaVars>>

NextConvert == BuildDependencies \/ ResolveRound \/ ReturnErr \/ ReturnOk

\* the function runs to its end: a step that can be taken is taken
SpecConvert == InitConvert /\ [][NextConvert]_vars /\ WF_vars(NextConvert)

(***************************************************************************)
(* Properties of convert_categories, stated over the category map as it    *)
(* was passed (given), independently of the dependencies map.              *)
(***************************************************************************)
\* the non-builtin names the body of k refers to (none if k is not defined)
Refers(g, k) ==
    IF k \in DOMAIN g
    THEN { m[2] : m \in { x \in g[k] : x[1] = "Category"
                                        /\ x[2] \notin DOMAIN builtin_categories } }
    ELSE {}

\* the names reachable from the names S along references
RECURSIVE Closure(_, _)
Closure(g, S) ==
    LET N == S \cup UNION { Refers(g, k) : k \in S }
    IN IF N = S THEN S ELSE Closure(g, N)

\* n is a defined category on a dependency cycle (a self-reference included)
OnCycle(g, n) == n \in DOMAIN g /\ n \in Closure(g, Refers(g, n))

\* k depends, directly or transitively, on a category on a cycle or on a name that
\* is neither builtin nor a defined category (k itself may be the one on the cycle)
Unresolvable(g, k) ==
    \E n \in Closure(g, {k}) : n \notin DOMAIN g \/ OnCycle(g, n)

C3_Reports ==
    pc = "done" =>
        /\ (\E k \in DOMAIN given : Unresolvable(given, k)) => result = "Err"
        /\ result = "Ok" => DOMAIN registry = DOMAIN given

\* C3: convert_categories terminates for every finite category map; it returns an
\* error whenever some category depends, directly or transitively, on a category in
\* a dependency cycle or on a name that is neither builtin nor defined; it returns
\* Ok only when every category has been added to the registry.
C3_TerminatesAndReports ==
    /\ <>(pc = "done")
    /\ []C3_Reports

\* A is resolved in round one; B refers to itself and C to B: Err in round two
C3_Witness ==
    /\ pc = "done"
    /\ result = "Err"
    /\ given = [k \in {"A", "B", "C"} |->
                  CASE k = "A" -> {Category("digit")}
                    [] k = "B" -> {Category("B"), Category("A")}
                    [] k = "C" -> {Category("B")}]
    /\ Len(rounds) = 1
    /\ DOMAIN registry = {"A"}

\* the names of a list of rounds, in the order they were inserted
RECURSIVE Flatten(_)
Flatten(rs) == IF rs = <<>> THEN <<>> ELSE Head(rs) \o Flatten(Tail(rs))

\* the categories that can be resolved once `resolved` are, round after round
RECURSIVE Peel(_, _)
Peel(g, resolved) ==
    LET next == { k \in DOMAIN g \ resolved : Refers(g, k) \subseteq resolved }
    IN IF next = {} THEN <<>> ELSE <<next>> \o Peel(g, resolved \cup next)

RoundSets == [i \in DOMAIN rounds |-> { rounds[i][j] : j \in DOMAIN rounds[i] }]

MIR_Category(c) == <<"Category", c>>
MIR_Sequence(chars) == <<"Sequence", chars>>
MIR_Repetition(regex, min, max) == <<"Repetition", regex, min, max>>
MIR_Alternation(list) == <<"Alternation", list>>
MIR_Set(members) == <<"Set", members>>
MIR_NegatedSet(members) == <<"NegatedSet", members>>
MIR_Concatenation(list) == <<"Concatenation", list>>

IsPanic(x) == "panic" \in DOMAIN x
PanicWith(message) == [panic |-> message]

\* FSAState::new
FSAState_new == [transitions |-> EmptyMap, token |-> None]

\* FSAState::with_single_transition
with_single_transition(matcher, next) ==
    [transitions |-> (matcher :> {next}), token |-> None]

\* FSAState::with_single_matcher
with_single_matcher(matcher, next_states) ==
    [transitions |-> (matcher :> next_states), token |-> None]

\* the sum of x.states.len() over the first n automata of a list
RECURSIVE StatesBefore(_, _)
StatesBefore(fsas, n) ==
    IF n = 0 THEN 0 ELSE StatesBefore(fsas, n - 1) + Len(fsas[n].states)

\* states[last].transitions.insert(key, targets); nothing for an empty list
InsertAtLast(states, key, targets) ==
    IF states = <<>> THEN states
    ELSE [states EXCEPT ![Len(states)].transitions = Insert(@, key, targets)]

\* the offset loop of compile: new_next is built from the shifted targets and
\* dropped at the end of the loop body; the fragment is left as it was
shift_fragment(fragment, acc) == fragment

\* the first fold of compile (lines 179-203), per fragment
link_fragment(fsas, i, mode) ==
    LET acc     == StatesBefore(fsas, i - 1)
        shifted == shift_fragment(fsas[i], acc)
    IN IF mode = "Concatenate"
       THEN [states |-> InsertAtLast(shifted.states, None,
                                     {acc + Len(shifted.states)})]
       ELSE shifted

RECURSIVE FlattenStates(_)
FlattenStates(fsas) ==
    IF fsas = <<>> THEN <<>> ELSE Head(fsas).states \o FlattenStates(Tail(fsas))

\* FSA::compile
compile(fsas, mode) ==
    LET linked == [i \in DOMAIN fsas |-> link_fragment(fsas, i, mode)]
        \* remove the epsilon transition from the last state of the last fragment
        cut == IF linked = <<>> \/ linked[Len(linked)].states = <<>> THEN linked
               ELSE [linked EXCEPT ![Len(linked)].states =
                       [@ EXCEPT ![Len(@)].transitions = Remove(@, None)]]
    IN [states |-> FlattenStates(cut)]

\* `(i + 1) as usize * len - 1` with i: u16 (wrapping)
exit_of_copy(i, len) == ((i + 1) % (U16_MAX + 1)) * len - 1

\* for i in min..=max the state (i + 1) * len - 1 gets the epsilon
\* transition {state + 1, last_state}
repetition_exits(states, len, min, max) ==
    [s \in DOMAIN states |->
        IF \E i \in min..max : s - 1 = exit_of_copy(i, len)
        THEN [states[s] EXCEPT !.transitions = Insert(@, None, {s, Len(states)})]
        ELSE states[s]]

RECURSIVE FlattenVecs(_)
FlattenVecs(vs) ==
    IF vs = <<>> THEN <<>> ELSE Head(vs).vec \o FlattenVecs(Tail(vs))

RECURSIVE Copies(_, _)
Copies(vec, n) == IF n = 0 THEN <<>> ELSE vec \o Copies(vec, n - 1)

\* FSA::mir_to_fsa_vec (returns [vec |-> list of FSA]) and FSA::from_mir_composite
RECURSIVE mir_to_fsa_vec(_)
RECURSIVE from_mir_composite(_)
mir_to_fsa_vec(m) ==
    CASE m[1] = "Category" ->
            [vec |-> << [states |->
                << with_single_transition(Some(SingleMatcher(Category(m[2]))), 1),
                   FSAState_new >>] >>]
      [] m[1] = "Sequence" ->
            [vec |-> << [states |->
                [i \in 1..Len(m[2]) |->
                    with_single_transition(Some(SingleMatcher(Character(m[2][i]))), i)]
                    \o <<FSAState_new>>] >>]
      [] m[1] = "Repetition" ->
            LET body == mir_to_fsa_vec(m[2]) IN
            IF IsPanic(body) THEN body
            ELSE
            LET len   == StatesBefore(body.vec, Len(body.vec))
                min   == m[3]
                max   == m[4]
                limit == IF max # None THEN max[1] ELSE min
                built == compile(body.vec \o Copies(body.vec, limit), "Concatenate")
                last_state == Len(built.states)
            IN
            IF max # None
            THEN IF min <= max[1] /\ len = 0
                 THEN PanicWith("attempt to subtract with overflow")
                 ELSE [vec |-> << [states |->
                        repetition_exits(built.states, len, min, max[1])
                            \o <<FSAState_new>>] >>]
            ELSE [vec |-> << [states |->
                    InsertAtLast(built.states, None,
                                 {last_state - len, last_state})
                        \o <<FSAState_new>>] >>]
      [] m[1] = "Alternation" ->
            LET subexpressions == [i \in DOMAIN m[2] |-> from_mir_composite(m[2][i])] IN
            IF \E i \in DOMAIN subexpressions : IsPanic(subexpressions[i])
            THEN PanicWith("alternative panicked")
            ELSE IF \E i \in DOMAIN subexpressions : subexpressions[i].states = <<>>
            THEN PanicWith("unwrap on None")
            ELSE
            LET n == Len(subexpressions)
                last_state == 1 + StatesBefore(subexpressions, n)
                with_exit == [i \in DOMAIN subexpressions |->
                    [states |-> InsertAtLast(subexpressions[i].states, None,
                        {last_state - StatesBefore(subexpressions, i)})]]
                transition == { 1 + StatesBefore(subexpressions, i - 1) : i \in 1..n }
                first_state == [states |-> <<with_single_matcher(None, transition)>>]
            IN [vec |-> << compile(<<first_state>> \o with_exit
                                       \o << [states |-> <<FSAState_new>>] >>,
                                   "Separate") >>]
      [] m[1] = "Set" ->
            [vec |-> << [states |->
                << [transitions |->
                        [k \in { Some(SingleMatcher(m[2][i])) : i \in DOMAIN m[2] }
                            |-> {1}],
                    token |-> None],
                   FSAState_new >>] >>]
      [] m[1] = "NegatedSet" ->
            [vec |-> << [states |->
                << with_single_transition(Some(NegatedSet(m[2])), 1),
                   FSAState_new >>] >>]
      [] m[1] = "Concatenation" ->
            LET parts == [i \in DOMAIN m[2] |-> mir_to_fsa_vec(m[2][i])] IN
            IF \E i \in DOMAIN parts : IsPanic(parts[i])
            THEN PanicWith("part panicked")
            ELSE [vec |-> FlattenVecs(parts)]

from_mir_composite(m) ==
    LET v == mir_to_fsa_vec(m) IN
    IF IsPanic(v) THEN v ELSE compile(v.vec, "Concatenate")

\* FSA::from_mir
from_mir(m, token) ==
    LET r == from_mir_composite(m) IN
    IF IsPanic(r) THEN r
    ELSE IF r.states = <<>> THEN PanicWith("unwrap on None")
    ELSE [states |-> [r.states EXCEPT ![Len(r.states)].token = Some(token)]]

(***************************************************************************)
(* Specification SpecFsa: FSA::from_mir on a drawn MIR tree.               *)
(***************************************************************************)
MirLeaves ==
    { MIR_Category("ASCIIDigit"), MIR_Category("Any"),
      MIR_Sequence(<<"a">>), MIR_Sequence(<<"a", "g">>),
      MIR_Set(<<Character("a"), Category("ASCIIDigit")>>),
      MIR_NegatedSet(<<Character("a")>>) }

MirLists == {<<>>} \cup { <<x, y>> : x \in MirLeaves, y \in MirLeaves }

MirBodies ==
    MirLeaves \cup { MIR_Alternation(l) : l \in MirLists }
              \cup { MIR_Concatenation(l) : l \in MirLists }

\* the (min, max) pairs of a Repetition: max is absent or at least min
RepetitionBounds ==
    { <<min, None>> : min \in 0..MaxRepeat }
        \cup { <<r[1], Some(r[2])>> :
                 r \in { q \in (0..MaxRepeat) \X (0..MaxRepeat) : q[1] <= q[2] } }

MirInputs ==
    MirBodies \cup { MIR_Repetition(b, r[1], r[2]) : b \in MirBodies, r \in RepetitionBounds }

InitFsa ==
    /\ pc = "start"
    /\ mir \in MirInputs
    /\ fsa = Idle
    /\ sources = Idle /\ automaton = Idle /\ dfsa = Idle /\ prune = Idle
    /\ OrdIdle /\ ParseIdle /\ ConvIdle

Build ==
    /\ pc = "start"
    /\ fsa' = from_mir(mir, "token")
    /\ pc' = "done"
    /\ UNCHANGED <<mir, sources, automaton, dfsa, prune, ordVars, parseVars, convVars>>

NextFsa == Build

SpecFsa == InitFsa /\ [][NextFsa]_vars

(***************************************************************************)
(* The language of an automaton and of a MIR tree, over words of at most   *)
(* MaxWord characters.                                                     *)
(***************************************************************************)
WordChars == {"a", "g", "7"}
Words == SeqsUpTo(WordChars, MaxWord)

\* the targets of the transitions of state s (numbered from 0) under key k
Targets(states, s, k) ==
    IF s + 1 \in DOMAIN states /\ k \in DOMAIN states[s + 1].transitions
    THEN states[s + 1].transitions[k] ELSE {}

RECURSIVE EpsilonClosure(_, _)
EpsilonClosure(states, S) ==
    LET T == S \cup UNION { Targets(states, s, None) : s \in S } IN
    IF T = S THEN S ELSE EpsilonClosure(states, T)

Step(states, S, c) ==
    UNION { UNION { states[s + 1].transitions[k] :
                      k \in { j \in DOMAIN states[s + 1].transitions :
                                j # None /\ Matcher_is_matching(j[1], c) } } :
            s \in { t \in S : t + 1 \in DOMAIN states } }

RECURSIVE Run(_, _, _)
Run(states, S, w) ==
    IF w = <<>> THEN EpsilonClosure(states, S)
    ELSE Run(states, Step(states, EpsilonClosure(states, S), Head(w)), Tail(w))

\* the automaton, started in state 0, ends the word in a state carrying a token
Accepts(a, w) ==
    \E s \in Run(a.states, {0}, w) :
        s + 1 \in DOMAIN a.states /\ a.states[s + 1].token # None

ConcatLang(A, B) == { x \o y : x \in A, y \in B } \cap Words

RECURSIVE PowerLang(_, _)
PowerLang(A, k) == IF k = 0 THEN {<<>>} ELSE ConcatLang(PowerLang(A, k - 1), A)

RECURSIVE MirLang(_)
RECURSIVE ListLang(_)
MirLang(m) ==
    CASE m[1] = "Category" ->
            { <<c>> : c \in { d \in WordChars : CharacterCategory_is_matching(m[2], d) } }
      [] m[1] = "Sequence" -> {m[2]} \cap Words
      [] m[1] = "Set" ->
            { <<c>> : c \in { d \in WordChars :
                \E i \in DOMAIN m[2] : SingleMatcher_is_matching(m[2][i], d) } }
      [] m[1] = "NegatedSet" ->
            { <<c>> : c \in { d \in WordChars :
                \A i \in DOMAIN m[2] : ~SingleMatcher_is_matching(m[2][i], d) } }
      [] m[1] = "Alternation" -> UNION { MirLang(m[2][i]) : i \in DOMAIN m[2] }
      [] m[1] = "Concatenation" -> ListLang(m[2])
      [] m[1] = "Repetition" ->
            LET body == MirLang(m[2])
                most == IF m[4] # None THEN m[4][1] ELSE m[3] + MaxWord
            IN UNION { PowerLang(body, k) : k \in m[3]..most }

ListLang(l) ==
    IF l = <<>> THEN {<<>>} ELSE ConcatLang(MirLang(Head(l)), ListLang(Tail(l)))

\* C1: the automaton FSA::from_mir builds for Repetition{body, min, max} accepts
\* exactly the words made of k consecutive words of the body's language with
\* min <= k <= max (k >= min when max is absent): the empty word when min = 0,
\* exactly n repetitions when min = max = n.  Stated for the bodies that are a
\* single matcher or a character sequence.
C1_RepetitionLanguage ==
    (pc = "done" /\ mir[1] = "Repetition" /\ mir[2] \in MirLeaves /\ ~IsPanic(fsa))
        => \A w \in Words : Accepts(fsa, w) <=> w \in MirLang(mir)

(***************************************************************************)
(* Ord for CharacterCategory (turn_utils/src/set_ordering.rs) and sorting  *)
(* by it.                                                                  *)
(***************************************************************************)
\* usize::cmp on the discriminants
usize_cmp(i, j) == IF i < j THEN "Less" ELSE IF i = j THEN "Equal" ELSE "Greater"

\* incomparable tags are ordered by descending discriminant
CharacterCategory_cmp_Descending(x, y) ==
    LET o == CharacterCategory_set_ordering(x, y) IN
    IF o # "None" THEN o ELSE usize_cmp(CategoryIndex(y), CategoryIndex(x))

\* Ord::cmp for CharacterCategory
CharacterCategory_cmp(x, y) ==
    LET o == CharacterCategory_set_ordering(x, y) IN
    IF o # "None" THEN o ELSE usize_cmp(CategoryIndex(x), CategoryIndex(y))

\* one element put into a sorted list, behind everything that is not Greater
sort_insert(sorted, x) ==
    LET n == Cardinality({ i \in DOMAIN sorted :
                 \A j \in 1..i : CharacterCategory_cmp(sorted[j], x) # "Greater" })
    IN SubSeq(sorted, 1, n) \o <<x>> \o SubSeq(sorted, n + 1, Len(sorted))

\* slice::sort_unstable with Ord::cmp
RECURSIVE sort_unstable(_)
sort_unstable(list) ==
    IF list = <<>> THEN <<>>
    ELSE sort_insert(sort_unstable(SubSeq(list, 1, Len(list) - 1)), list[Len(list)])

\* the 15 tags, rotated by r places, then the places i and j exchanged
Shuffled(r, i, j) ==
    LET n == Len(CharacterCategory)
        rotated == [k \in 1..n |-> CharacterCategory[((k - 1 + r) % n) + 1]]
    IN [k \in 1..n |-> IF k = i THEN rotated[j]
                       ELSE IF k = j THEN rotated[i] ELSE rotated[k]]

(***************************************************************************)
(* Specification SpecOrd: three tags are drawn, compared pairwise with     *)
(* Ord::cmp, and a permutation of the 15 tags made from them is sorted.    *)
(***************************************************************************)
InitOrd ==
    /\ pc = "start"
    /\ lhs \in Categories /\ rhs \in Categories /\ third \in Categories
    /\ ord = Idle
    /\ ParseIdle /\ ConvIdle /\ FsaIdle

CmpCategories ==
    /\ pc = "start"
    /\ ord' = [ab |-> CharacterCategory_cmp(lhs, rhs),
               ba |-> CharacterCategory_cmp(rhs, lhs),
               bc |-> CharacterCategory_cmp(rhs, third),
               ac |-> CharacterCategory_cmp(lhs, third),
               input  |-> Shuffled(CategoryIndex(lhs), CategoryIndex(rhs),
                                   CategoryIndex(third)),
               sorted |-> sort_unstable(Shuffled(CategoryIndex(lhs), CategoryIndex(rhs),
                                                 CategoryIndex(third)))]
    /\ pc' = "done"
    /\ UNCHANGED <<lhs, rhs, third, parseVars, convVars, fsaVars>>

NextOrd == CmpCategories

SpecOrd == InitOrd /\ [][NextOrd]_vars

\* C11: Ord::cmp of CharacterCategory is a total order on the 15 tags (total,
\* antisymmetric, transitive); it agrees with set_ordering wherever that is Some
\* and compares the declaration indices otherwise; sorting a permutation of the
\* 15 tags gives the declaration sequence ASCIILowercase .. Any.
C11_TotalOrder ==
    pc = "done" =>
        /\ ord.ab \in {"Less", "Equal", "Greater"}
        /\ (ord.ab = "Equal") <=> (lhs = rhs)
        /\ (ord.ab = "Less") <=> (ord.ba = "Greater")
        /\ (ord.ab = "Less" /\ ord.bc = "Less") => ord.ac = "Less"
        /\ CharacterCategory_set_ordering(lhs, rhs) # "None"
              => ord.ab = CharacterCategory_set_ordering(lhs, rhs)
        /\ CharacterCategory_set_ordering(lhs, rhs) = "None"
              => ord.ab = usize_cmp(CategoryIndex(lhs), CategoryIndex(rhs))
        /\ ord.sorted = CharacterCategory

\* Utf8Whitespace, ASCIILowercase, Utf8Alpha: incomparable tags ordered by index,
\* a comparable pair by set_ordering, and a shuffled input that sorting changes
C11_Witness ==
    /\ pc = "done"
    /\ lhs = "Utf8Whitespace" /\ rhs = "ASCIILowercase" /\ third = "Utf8Alpha"
    /\ CharacterCategory_set_ordering(lhs, rhs) = "None"
    /\ ord.ab = "Greater" /\ ord.bc = "Less" /\ ord.ac = "Greater"
    /\ ord.input # CharacterCategory
    /\ ord.sorted = CharacterCategory

(***************************************************************************)
(* FSA::union of turn_utils (regex/fsa.rs) and of turn_lexer_derive        *)
(* (automata/fsa.rs), FSA::from_token, create_automata,                    *)
(* create_minimal_automaton and DFSA::from of turn_lexer_derive.           *)
(*                                                                         *)
(* A rule is <<token, text>>, the text a sequence of characters.  The      *)
(* Matcher of turn_lexer_derive is Character(c), Category(tag) or          *)
(* <<"Any">>.  A syn::Error is [err |-> message].                          *)
(***************************************************************************)
MaxSources == 2    \* most rules handed to FSA::union
MaxLiteral == 2    \* longest literal text of a rule

IsErr(x) == "err" \in DOMAIN x

\* the targets of every transition of every state moved up by offset
with_offset(states, offset) ==
    [s \in DOMAIN states |->
        [transitions |-> [k \in DOMAIN states[s].transitions |->
                            { i + offset : i \in states[s].transitions[k] }],
         token |-> states[s].token]]

RECURSIVE UnionStates(_, _)
UnionStates(srcs, n) ==
    IF n = 0 THEN <<>>
    ELSE UnionStates(srcs, n - 1)
            \o with_offset(srcs[n].states, 1 + StatesBefore(srcs, n - 1))

\* the new start state and the shifted states of every source behind it
union_states(srcs) ==
    << [transitions |-> (None :> { 1 + StatesBefore(srcs, i - 1) : i \in DOMAIN srcs }),
        token |-> None] >> \o UnionStates(srcs, Len(srcs))

\* FSA::union of turn_lexer_derive: the epsilon targets are kept in a BTreeSet
derive_FSA_union(srcs) == [states |-> union_states(srcs)]

\* FSA::union of turn_utils: first_state_epsilon_transitions is
\* FixedBitSet::with_capacity(0), and FixedBitSet::insert panics on a bit that is
\* not below the length of the set
FSA_union(srcs) ==
    LET length == 0 IN
    IF \E i \in DOMAIN srcs : ~(1 + StatesBefore(srcs, i - 1) < length)
    THEN PanicWith("insert at index 1 exceeds fixedbitset size 0")
    ELSE [states |-> union_states(srcs)]

\* FSA::from_token without the test for an empty source
from_token_EmptyAccepted(ident, text) ==
    [states |->
        [i \in 1..Len(text) |->
            [transitions |-> (Some(Character(text[i])) :> {i}), token |-> None]]
        \o << [transitions |-> EmptyMap, token |-> Some(ident)] >>]

\* FSA::from_token
from_token(ident, text) ==
    IF text # <<>>
    THEN [states |->
            [i \in 1..Len(text) |->
                [transitions |-> (Some(Character(text[i])) :> {i}), token |-> None]]
            \o << [transitions |-> EmptyMap, token |-> Some(ident)] >>]
    ELSE [err |-> "Token source string must not be empty."]

\* create_automata: the items, or the first error
create_automata(rules) ==
    LET items == [i \in DOMAIN rules |-> from_token(rules[i][1], rules[i][2])] IN
    IF \E i \in DOMAIN items : IsErr(items[i])
    THEN [err |-> "Token source string must not be empty."]
    ELSE [items |-> items]

\* From<&FSA<Token>> for DFSA<Token>
DFSA_from(other) == [states |-> <<>>]

Literals == SeqsUpTo({"a", "g"}, MaxLiteral)
Rules == {"T1", "T2"} \X Literals

(***************************************************************************)
(* Specification SpecUnion: a list of literal rules is drawn; it is turned *)
(* into automata and united by either crate; the union of                  *)
(* turn_lexer_derive is then converted with DFSA::from.                    *)
(***************************************************************************)
InitUnion ==
    /\ pc = "start"
    /\ sources \in SeqsUpTo(Rules, MaxSources)
    /\ automaton = Idle /\ dfsa = Idle /\ prune = Idle
    /\ mir = Idle /\ fsa = Idle
    /\ OrdIdle /\ ParseIdle /\ ConvIdle

\* turn_utils: every rule through FSA::from_mir, then FSA::union
Union ==
    /\ pc = "start"
    /\ LET inputs == [i \in DOMAIN sources |->
                        from_mir(MIR_Sequence(sources[i][2]), sources[i][1])]
       IN automaton' = [by |-> "turn_utils", inputs |-> inputs,
                        output |-> FSA_union(inputs)]
    /\ pc' = "done"
    /\ UNCHANGED <<sources, dfsa, prune, mir, fsa, ordVars, parseVars, convVars>>

\* turn_lexer_derive: create_automata, then FSA::union of its items
DeriveUnion ==
    /\ pc = "start"
    /\ LET automata == create_automata(sources) IN
          IF IsErr(automata)
          THEN /\ automaton' = [by |-> "turn_lexer_derive", inputs |-> <<>>,
                                output |-> automata]
               /\ pc' = "done"
          ELSE /\ automaton' = [by |-> "turn_lexer_derive", inputs |-> automata.items,
                                output |-> derive_FSA_union(automata.items)]
               /\ pc' = "united"
    /\ UNCHANGED <<sources, dfsa, prune, mir, fsa, ordVars, parseVars, convVars>>

\* DFSA::from(&FSA) on the union
DfsaFrom ==
    /\ pc = "united"
    /\ dfsa' = DFSA_from(automaton.output)
    /\ pc' = "determinized"
    /\ UNCHANGED <<sources, automaton, prune, mir, fsa, ordVars, parseVars, convVars>>

\* create_minimal_automaton: the union is dropped, an empty DFSA is returned
CreateMinimalAutomaton ==
    /\ pc = "start"
    /\ LET automata == create_automata(sources) IN
          IF IsErr(automata)
          THEN /\ automaton' = [by |-> "create_minimal_automaton", inputs |-> <<>>,
                                output |-> automata]
               /\ dfsa' = dfsa
               /\ pc' = "done"
          ELSE /\ automaton' = [by |-> "create_minimal_automaton",
                                inputs |-> automata.items,
                                output |-> derive_FSA_union(automata.items)]
               /\ dfsa' = [states |-> <<>>]
               /\ pc' = "determinized"
    /\ UNCHANGED <<sources, prune, mir, fsa, ordVars, parseVars, convVars>>

NextUnion == Union \/ DeriveUnion \/ DfsaFrom \/ CreateMinimalAutomaton

SpecUnion == InitUnion /\ [][NextUnion]_vars

\* every transition target of every state is an index of the state list
TargetsValid(a) ==
    \A s \in DOMAIN a.states : \A k \in DOMAIN a.states[s].transitions :
        \A t \in a.states[s].transitions[k] : t < Len(a.states)

\* `out` is laid out as the union of the automata `inputs`
UnionLayout(inputs, out) ==
    /\ ~IsPanic(out)
    /\ Len(out.states) = 1 + StatesBefore(inputs, Len(inputs))
    /\ out.states[1].token = None
    /\ DOMAIN out.states[1].transitions = {None}
    /\ out.states[1].transitions[None]
          = { 1 + StatesBefore(inputs, i - 1) : i \in DOMAIN inputs }
    /\ \A i \in DOMAIN inputs : \A s \in DOMAIN inputs[i].states :
          LET o == 1 + StatesBefore(inputs, i - 1)
              from == inputs[i].states[s]
              to == out.states[o + s]
          IN /\ to.token = from.token
             /\ DOMAIN to.transitions = DOMAIN from.transitions
             /\ \A k \in DOMAIN from.transitions :
                   to.transitions[k] = { t + o : t \in from.transitions[k] }
    /\ (\A i \in DOMAIN inputs : TargetsValid(inputs[i])) => TargetsValid(out)

\* FSA::union was called
UnionCalled ==
    /\ pc \in {"done", "united", "determinized"}
    /\ ~IsErr(automaton.output)

\* C12: FSA::union over f1..fn returns an automaton of 1 + sum|fi| states whose
\* state 0 is non-accepting with one transition, an epsilon transition to
\* {o_1..o_n}, o_i = 1 + sum of |fj| for j < i; state o_i + s carries the token and
\* the matcher keys of state s of fi, every target t replaced by t + o_i; valid
\* targets of the sources give valid targets of the union.
C12_UnionLayout ==
    UnionCalled => UnionLayout(automaton.inputs, automaton.output)

\* the same statement for the union of turn_lexer_derive alone
UnionLayout_Derive ==
    (UnionCalled /\ automaton.by # "turn_utils")
        => UnionLayout(automaton.inputs, automaton.output)

\* DFSAState::transition: the target of the first matcher, in key order, that
\* matches c; the matchers here are characters, at most one of which matches
DFSAState_transition(state, c) ==
    IF Character(c) \in DOMAIN state.transitions
    THEN Some(state.transitions[Character(c)]) ELSE None

\* the state the DFA is in after the text, fed from `state`; None when a state or
\* a transition is missing on the way
RECURSIVE DfsaRun(_, _, _)
DfsaRun(d, state, text) ==
    IF state + 1 \notin DOMAIN d.states THEN None
    ELSE IF text = <<>> THEN Some(state)
    ELSE LET next == DFSAState_transition(d.states[state + 1], Head(text)) IN
         IF next = None THEN None ELSE DfsaRun(d, next[1], Tail(text))

\* C13: the DFA obtained from the union NFA of a non-empty list of literal token
\* rules has a start state 0 and is equivalent to that NFA: for every rule, feeding
\* its literal text from state 0 follows existing transitions and ends in a state
\* whose accept token is the rule's token.  (Rules with pairwise different texts.)
C13_DfaEquivalent ==
    (/\ pc = "determinized"
     /\ sources # <<>>
     /\ \A i, j \in DOMAIN sources : sources[i][2] = sources[j][2] => i = j)
        => /\ 1 \in DOMAIN dfsa.states
           /\ \A i \in DOMAIN sources :
                 LET end == DfsaRun(dfsa, 0, sources[i][2]) IN
                 /\ end # None
                 /\ dfsa.states[end[1] + 1].token = Some(sources[i][1])

(***************************************************************************)
(* DFSA::remove_unreachable_states (turn_lexer_derive/automata/dfsa.rs).   *)
(* A DFSA state is [transitions, token], its transitions a map from        *)
(* Matcher to the index of the next state.                                 *)
(***************************************************************************)
MaxDfsaStates == 3   \* most states of the DFSA handed to remove_unreachable_states
MaxRenames == 8      \* next_state is not counted beyond this

DfsaMatchers == { Character("a"), Character("g") }

\* the transition maps of a state of a DFSA of n states, every target valid
TransitionMaps(n) == UNION { [D -> 0..(n - 1)] : D \in SUBSET DfsaMatchers }

\* the DFSAs of n states; state 0 carries no token, state s > 0 the token s
Dfsas(n) ==
    { [states |-> [s \in 1..n |->
                     [transitions |-> t[s],
                      token |-> IF s = 1 THEN None ELSE Some(s - 1)]]] :
      t \in [1..n -> TransitionMaps(n)] }

\* next_state as the model holds it: a counter of a width the model can
\* run through, starting again at 0 behind MaxRenames (the usize of the code
\* does so behind usize::MAX); a call that returns stays below MaxRenames
counted(n) == n % (MaxRenames + 1)

\* the elements of a set of indices below x
Below(S, x) == { y \in S : y < x }

\* the for loop over new_states, in ascending order: every state gets the next id
rename_round(state_ids, new_states, next_state) ==
    [s \in DOMAIN state_ids \cup new_states |->
        IF s \in new_states THEN next_state + Cardinality(Below(new_states, s))
        ELSE state_ids[s]]

\* "get all following states" of the states of a round
following_states(states, new_states) ==
    UNION { { states[s + 1].transitions[m] : m \in DOMAIN states[s + 1].transitions } :
            s \in new_states }

\* the filter_map over the enumerated states, from state i on
RECURSIVE renamed_states(_, _, _)
renamed_states(states, state_ids, i) ==
    IF i >= Len(states) THEN <<>>
    ELSE (IF i \in DOMAIN state_ids
          THEN << [transitions |->
                      [m \in DOMAIN states[i + 1].transitions |->
                          state_ids[states[i + 1].transitions[m]]],
                   token |-> states[i + 1].token] >>
          ELSE <<>>) \o renamed_states(states, state_ids, i + 1)

(***************************************************************************)
(* Specification SpecPrune: remove_unreachable_states on a drawn DFSA.     *)
(* pc: "start", "loop" at the head of the while loop, "done" after the     *)
(* return, "panic" after an index out of bounds.                           *)
(***************************************************************************)
InitPrune ==
    /\ pc = "start"
    /\ sources \in UNION { Dfsas(n) : n \in 0..MaxDfsaStates }
    /\ dfsa = sources
    /\ prune = Idle /\ automaton = Idle
    /\ mir = Idle /\ fsa = Idle
    /\ OrdIdle /\ ParseIdle /\ ConvIdle

\* lines 23-26: the locals before the loop
PruneStart ==
    /\ pc = "start"
    /\ prune' = [state_ids |-> EmptyMap, new_states |-> {0}, next_state |-> 0]
    /\ pc' = "loop"
    /\ UNCHANGED <<sources, automaton, dfsa, mir, fsa, ordVars, parseVars, convVars>>

\* lines 28-41: one turn of the while loop
PruneRound ==
    /\ pc = "loop"
    /\ prune.new_states # {}
    /\ IF \E s \in prune.new_states : s + 1 \notin DOMAIN dfsa.states
       THEN /\ pc' = "panic"
            /\ prune' = prune
       ELSE /\ pc' = pc
            /\ prune' = [state_ids |-> rename_round(prune.state_ids, prune.new_states,
                                                    prune.next_state),
                         new_states |-> following_states(dfsa.states, prune.new_states),
                         next_state |-> counted(prune.next_state
                                                    + Cardinality(prune.new_states))]
    /\ UNCHANGED <<sources, automaton, dfsa, mir, fsa, ordVars, parseVars, convVars>>

\* lines 43-61: the states are filtered and their transitions renamed
PruneFinish ==
    /\ pc = "loop"
    /\ prune.new_states = {}
    /\ dfsa' = [states |-> renamed_states(dfsa.states, prune.state_ids, 0)]
    /\ pc' = "done"
    /\ UNCHANGED <<sources, automaton, prune, mir, fsa, ordVars, parseVars, convVars>>

NextPrune == PruneStart \/ PruneRound \/ PruneFinish

SpecPrune == InitPrune /\ [][NextPrune]_vars

\* the call runs on: a turn of the loop that can be taken is taken
SpecPruneFair == SpecPrune /\ WF_vars(NextPrune)

\* the states reachable from the states S
RECURSIVE ReachableFrom(_, _)
ReachableFrom(states, S) ==
    LET N == S \cup following_states(states, S)
    IN IF N = S THEN S ELSE ReachableFrom(states, N)

\* C14: after remove_unreachable_states on a DFA whose targets are all valid the
\* result consists of exactly the states that were reachable from state 0, state 0
\* is still the start state, every target is a valid index of the new list, and a
\* kept state's transition on a matcher leads to the new index of the state it led
\* to before, with the accept tokens preserved.
C14_ReachablePart ==
    pc = "done" =>
        LET old == sources.states
            R == ReachableFrom(old, {0})
            new_index(i) == Cardinality(Below(R, i))
        IN /\ Len(dfsa.states) = Cardinality(R)
           /\ \A s \in DOMAIN dfsa.states : \A m \in DOMAIN dfsa.states[s].transitions :
                 dfsa.states[s].transitions[m] < Len(dfsa.states)
           /\ \A i \in R :
                 LET to == dfsa.states[new_index(i) + 1] IN
                 /\ to.token = old[i + 1].token
                 /\ DOMAIN to.transitions = DOMAIN old[i + 1].transitions
                 /\ \A m \in DOMAIN to.transitions :
                       to.transitions[m] = new_index(old[i + 1].transitions[m])

(***************************************************************************)
(* The regex lexer (turn_regex_syntax/src/lexer.rs) over the TextReader    *)
(* and Position of turn_utils.                                             *)
(*                                                                         *)
(* The input is a sequence of characters, "U+00E9" standing for a          *)
(* character of two bytes.  A Position is [row, col, index], the reader    *)
(* [read |-> the number of characters read, position].  A function that    *)
(* reads returns [res |-> its value, reader |-> the reader after it].  A   *)
(* LexicalError is a tuple that starts with the name of the variant.       *)
(***************************************************************************)
MaxInput == 3       \* longest input over CoreChars, longest run of literal text
MaxBlock == 4       \* longest text behind `{`
MaxDigits == 5      \* longest run of digits behind `{`

ESCAPE == "\\"
DigitValue ==
    ("0" :> 0) @@ ("1" :> 1) @@ ("2" :> 2) @@ ("3" :> 3) @@ ("4" :> 4)
        @@ ("5" :> 5) @@ ("6" :> 6) @@ ("7" :> 7) @@ ("8" :> 8) @@ ("9" :> 9)

is_ascii_digit(c) == c \in DOMAIN DigitValue
len_utf8(c) == IF c = "U+00E9" THEN 2 ELSE 1

UnclosedSet(position) == <<"UnclosedSet", position>>
UnclosedSubexpression(position) == <<"UnclosedSubexpression", position>>
UnclosedRepetition(position) == <<"UnclosedRepetition", position>>
InvalidRepetitionRange(min, max) == <<"InvalidRepetitionRange", min, max>>
InvalidRepetitionCharacter(position, character) ==
    <<"InvalidRepetitionCharacter", position, character>>
InvalidEscape(position, character) == <<"InvalidEscape", position, character>>
InvalidSetEscape(position, character) == <<"InvalidSetEscape", position, character>>
RangeIntegerOverflow(position) == <<"RangeIntegerOverflow", position>>

\* Position::default
Position_default == [row |-> 1, col |-> 1, index |-> 0]

\* Position::advance moving the column at a newline as at any character
Position_advance_ColumnKept(position, character) ==
    [row   |-> IF character = "\n" THEN position.row + 1 ELSE position.row,
     col   |-> position.col + 1,
     index |-> position.index + len_utf8(character)]

\* Position::advance
Position_advance(position, character) ==
    [row   |-> IF character = "\n" THEN position.row + 1 ELSE position.row,
     col   |-> IF character = "\n" THEN 1 ELSE position.col + 1,
     index |-> position.index + len_utf8(character)]

\* TextReader::new
TextReader_new == [read |-> 0, position |-> Position_default]

\* TextReader::peek
TextReader_peek(chars, r) ==
    IF r.read < Len(chars) THEN Some(chars[r.read + 1]) ELSE None

\* TextReader::next: the reader after the call (the value is what peek gave)
TextReader_next(chars, r) ==
    IF r.read < Len(chars)
    THEN [read |-> r.read + 1, position |-> Position_advance(r.position, chars[r.read + 1])]
    ELSE r

\* the byte offset of character i of the input
RECURSIVE ByteOffset(_, _)
ByteOffset(chars, i) ==
    IF i <= 1 THEN 0 ELSE ByteOffset(chars, i - 1) + len_utf8(chars[i - 1])

\* TextReader::input_slice: &input[start.index..end.index]
input_slice(chars, start, end) ==
    LET inside == { i \in DOMAIN chars : /\ start.index <= ByteOffset(chars, i)
                                         /\ ByteOffset(chars, i) < end.index }
    IN [k \in 1..Cardinality(inside) |->
          chars[CHOOSE i \in inside : Cardinality({ j \in inside : j < i }) = k - 1]]

\* Lexer::integer, the loop
RECURSIVE integer_loop(_, _, _, _)
integer_loop(chars, r, number, position) ==
    LET c == TextReader_peek(chars, r) IN
    IF c # None /\ is_ascii_digit(c[1])
    THEN IF number * 10 > 65535 \/ number * 10 + DigitValue[c[1]] > 65535
         THEN [res |-> Err(RangeIntegerOverflow(position)), reader |-> r]
         ELSE integer_loop(chars, TextReader_next(chars, r),
                           number * 10 + DigitValue[c[1]], position)
    ELSE [res |-> Ok(Some(number)), reader |-> r]

\* Lexer::integer with the loop unchecked: the number wraps around at 2^16
Lexer_integer_Wrapping(chars, r, position) ==
    LET RECURSIVE wrap(_, _)
        wrap(q, number) ==
            LET c == TextReader_peek(chars, q) IN
            IF c # None /\ is_ascii_digit(c[1])
            THEN wrap(TextReader_next(chars, q),
                      (number * 10 + DigitValue[c[1]]) % 65536)
            ELSE [res |-> Ok(Some(number)), reader |-> q]
        first == TextReader_peek(chars, r)
    IN IF first # None /\ is_ascii_digit(first[1])
       THEN wrap(TextReader_next(chars, r), DigitValue[first[1]])
       ELSE [res |-> Ok(None), reader |-> r]

\* Lexer::integer
Lexer_integer(chars, r, position) ==
    LET c == TextReader_peek(chars, r) IN
    IF c # None /\ is_ascii_digit(c[1])
    THEN integer_loop(chars, TextReader_next(chars, r), DigitValue[c[1]], position)
    ELSE [res |-> Ok(None), reader |-> r]

unwrap_or(option, default) == IF option = None THEN default ELSE option[1]

\* Lexer::repetition with the bounds of a reversed range exchanged
repetition_range_Swapped(min, max) ==
    IF max # None /\ unwrap_or(min, 0) > max[1]
    THEN Ok(TokRepetition(max[1], Some(unwrap_or(min, 0))))
    ELSE Ok(TokRepetition(unwrap_or(min, 0), max))

\* the value of Lexer::repetition once both bounds are read and `}` follows
repetition_range(min, max) ==
    IF max # None /\ unwrap_or(min, 0) > max[1]
    THEN Err(InvalidRepetitionRange(unwrap_or(min, 0), max[1]))
    ELSE Ok(TokRepetition(unwrap_or(min, 0), max))

\* Lexer::repetition
Lexer_repetition(chars, r, position) ==
    LET min == Lexer_integer(chars, r, position) IN
    IF min.res[1] = "Err" THEN min
    ELSE
    LET char_position == min.reader.position
        c  == TextReader_peek(chars, min.reader)
        r1 == TextReader_next(chars, min.reader)
    IN
    IF c = Some("-")
    THEN LET max == Lexer_integer(chars, r1, r1.position) IN
         IF max.res[1] = "Err" THEN max
         ELSE
         LET char_position2 == max.reader.position
             c2 == TextReader_peek(chars, max.reader)
             r2 == TextReader_next(chars, max.reader)
         IN [res |-> IF c2 = Some("}") THEN repetition_range(min.res[2], max.res[2])
                     ELSE IF c2 # None
                     THEN Err(InvalidRepetitionCharacter(char_position2, c2[1]))
                     ELSE Err(UnclosedRepetition(position)),
             reader |-> r2]
    ELSE [res |-> IF c = Some("}")
                  THEN Ok(TokRepetition(unwrap_or(min.res[2], 0),
                                        Some(unwrap_or(min.res[2], 0))))
                  ELSE IF c # None
                  THEN Err(InvalidRepetitionCharacter(char_position, c[1]))
                  ELSE Err(UnclosedRepetition(position)),
          reader |-> r1]

\* Lexer::subexpression, the loop
RECURSIVE subexpression_loop(_, _, _, _, _)
subexpression_loop(chars, r, start, end, position) ==
    LET c  == TextReader_peek(chars, r)
        r1 == TextReader_next(chars, r)
    IN IF c = Some(">")
       THEN [res |-> Ok(TokSubexpression(input_slice(chars, start, end))), reader |-> r1]
       ELSE IF c # None
       THEN subexpression_loop(chars, r1, start, r1.position, position)
       ELSE [res |-> Err(UnclosedSubexpression(position)), reader |-> r1]

\* Lexer::subexpression reporting the place behind the `<` instead of the `<`
Lexer_subexpression_AnchoredBehind(chars, r, position) ==
    subexpression_loop(chars, r, r.position, r.position, r.position)

\* Lexer::subexpression
Lexer_subexpression(chars, r, position) ==
    subexpression_loop(chars, r, r.position, r.position, position)

\* Lexer::set, the loop
RECURSIVE set_loop(_, _, _, _)
set_loop(chars, r, members, position) ==
    LET c  == TextReader_peek(chars, r)
        r1 == TextReader_next(chars, r)
    IN
    IF c = Some("]") THEN [res |-> Ok(members), reader |-> r1]
    ELSE IF c = Some("<")
    THEN LET category == Lexer_subexpression(chars, r1, r.position) IN
         IF category.res[1] = "Err" THEN category
         ELSE set_loop(chars, category.reader,
                       Append(members, Category(category.res[2][2])), position)
    ELSE IF c = Some(ESCAPE)
    THEN LET escaped_position == r1.position
             e  == TextReader_peek(chars, r1)
             r2 == TextReader_next(chars, r1)
         IN IF e \in {Some(ESCAPE), Some("<"), Some("]")}
            THEN set_loop(chars, r2, Append(members, Character(e[1])), position)
            ELSE IF e # None
            THEN [res |-> Err(InvalidSetEscape(escaped_position, e[1])), reader |-> r2]
            ELSE [res |-> Err(UnclosedSet(position)), reader |-> r2]
    ELSE IF c # None
    THEN set_loop(chars, r1, Append(members, Character(c[1])), position)
    ELSE [res |-> Err(UnclosedSet(position)), reader |-> r]

\* Lexer::set leaving the `!` it saw in front of the members
Lexer_set_NegatorKept(chars, r, position) ==
    LET negated == TextReader_peek(chars, r) = Some("!")
        body == set_loop(chars, r, <<>>, position)
    IN IF body.res[1] = "Err" THEN body
       ELSE [res |-> IF negated THEN Ok(TokNegatedSet(body.res[2]))
                     ELSE Ok(TokSet(body.res[2])),
             reader |-> body.reader]

\* Lexer::set
Lexer_set(chars, r, position) ==
    LET negated == TextReader_peek(chars, r) = Some("!")
        body == set_loop(chars, IF negated THEN TextReader_next(chars, r) ELSE r,
                         <<>>, position)
    IN IF body.res[1] = "Err" THEN body
       ELSE [res |-> IF negated THEN Ok(TokNegatedSet(body.res[2]))
                     ELSE Ok(TokSet(body.res[2])),
             reader |-> body.reader]

\* the literal run ending at the closing characters as well
SequenceEnd_AtClosers ==
    {"_", "*", "+", "?", "(", ")", "|", "{", "[", "<", ESCAPE, "}", "]", ">"}

\* the characters at which a literal run ends
SequenceEnd == {"_", "*", "+", "?", "(", ")", "|", "{", "[", "<", ESCAPE}

\* Lexer::sequence, the loop
RECURSIVE sequence_loop(_, _)
sequence_loop(chars, r) ==
    LET c == TextReader_peek(chars, r) IN
    IF c = None \/ c[1] \in SequenceEnd THEN r
    ELSE sequence_loop(chars, TextReader_next(chars, r))

\* Lexer::sequence
Lexer_sequence(chars, r, position) ==
    LET after == sequence_loop(chars, r) IN
    [res |-> Ok(TokSequence(input_slice(chars, position, after.position))),
     reader |-> after]

\* the characters a backslash makes literal
Escapable ==
    {"_", "*", "+", "?", "{", "}", ESCAPE, "[", "]", "|", "(", ")", "<", ">"}

\* Lexer::escaped reading on into the literal text behind the escaped character
Lexer_escaped_Merging(chars, r) ==
    LET start == r.position
        c  == TextReader_peek(chars, r)
        r1 == TextReader_next(chars, r)
    IN IF c # None /\ c[1] \in Escapable
       THEN Lexer_sequence(chars, r1, start)
       ELSE [res |-> Err(InvalidEscape(r1.position, c)), reader |-> r1]

\* Lexer::escaped
Lexer_escaped(chars, r) ==
    LET start == r.position
        c  == TextReader_peek(chars, r)
        r1 == TextReader_next(chars, r)
    IN [res |-> IF c # None /\ c[1] \in Escapable
                THEN Ok(TokSequence(input_slice(chars, start, r1.position)))
                ELSE Err(InvalidEscape(r1.position, c)),
        reader |-> r1]

\* Token::from_reader starting every span at the start of the input
Token_from_reader_FromStart(chars, token, begin, r) ==
    [token |-> token, position |-> <<Position_default, r.position>>,
     slice |-> input_slice(chars, Position_default, r.position)]

\* Token::from_reader
Token_from_reader(chars, token, begin, r) ==
    [token |-> token, position |-> <<begin, r.position>>,
     slice |-> input_slice(chars, begin, r.position)]

\* Lexer::next_token: [res |-> Option<RegexToken>, reader]
Lexer_next_token(chars, r) ==
    LET position == r.position
        c  == TextReader_peek(chars, r)
        r1 == TextReader_next(chars, r)
    IN
    IF c = None THEN [res |-> None, reader |-> r1]
    ELSE
    LET token ==
          CASE c[1] = "_" -> [res |-> Ok(TokAnyChar), reader |-> r1]
            [] c[1] = "*" -> [res |-> Ok(TokRepetition(0, None)), reader |-> r1]
            [] c[1] = "+" -> [res |-> Ok(TokRepetition(1, None)), reader |-> r1]
            [] c[1] = "?" -> [res |-> Ok(TokRepetition(0, Some(1))), reader |-> r1]
            [] c[1] = "(" -> [res |-> Ok(TokLParenthesis), reader |-> r1]
            [] c[1] = ")" -> [res |-> Ok(TokRParenthesis), reader |-> r1]
            [] c[1] = "|" -> [res |-> Ok(TokAlternation), reader |-> r1]
            [] c[1] = "{" -> Lexer_repetition(chars, r1, position)
            [] c[1] = "[" -> Lexer_set(chars, r1, position)
            [] c[1] = "<" -> Lexer_subexpression(chars, r1, position)
            [] c[1] = ESCAPE -> Lexer_escaped(chars, r1)
            [] OTHER -> Lexer_sequence(chars, r1, position)
    IN [res |-> Some(Token_from_reader(chars, token.res, position, token.reader)),
        reader |-> token.reader]

(***************************************************************************)
(* Specifications of the lexer: an input is drawn and next_token is called *)
(* until it returns None.  SpecLexer draws short inputs, SpecRepetition    *)
(* inputs that open a `{` block, SpecSet inputs that open a `[` block.     *)
(* pc: "start" before the first call, "lexing" after a call that returned  *)
(* a token, "done" after the call that returned None.                      *)
(***************************************************************************)
MaxSetBody == 4     \* longest text behind `[`

LexChars ==
    {"_", "*", "+", "?", "{", "}", "-", "(", ")", "<", ">", "[", "]", "!", "|", ESCAPE,
     "a", "7", "\n", "U+00E9"}

BlockChars == {"0", "2", "7", "-", "}", "z"}
DigitChars == {"0", "3", "5", "6"}
SetChars == {"!", "a", "<", ">", "[", "]", ESCAPE}

\* the characters the longer inputs are made of: one of each kind of block,
\* a repetition symbol, the escape, a digit, a one-byte and a two-byte letter
CoreChars == {"*", "{", "}", "-", "(", "<", ">", "[", "]", "!", ESCAPE, "a", "7", "U+00E9"}

\* the characters Lexer::sequence reads as text
LiteralChars == {"a", "}", "\n", "U+00E9"}

OneOrNone(S) == {<<>>} \cup { <<c>> : c \in S }

\* every input over CoreChars, every escape of every character between
\* letters, and every run of literal text followed by every character
ShortTexts ==
    SeqsUpTo(CoreChars, MaxInput)
        \cup { pre \o <<ESCAPE>> \o x \o post :
                 pre \in OneOrNone({"a", "U+00E9"}), x \in OneOrNone(LexChars),
                 post \in OneOrNone({"a", "U+00E9"}) }
        \cup { run \o x \o post :
                 run \in SeqsUpTo(LiteralChars, MaxInput), x \in OneOrNone(LexChars),
                 post \in OneOrNone({"a"}) }

BlockTexts ==
    { <<"{">> \o b : b \in SeqsUpTo(BlockChars, MaxBlock) }
        \cup {<<"*">>, <<"+">>, <<"?">>}

DigitRuns == SeqsUpTo(DigitChars, MaxDigits)

DigitTexts ==
    { <<"{">> \o d \o <<"}">> : d \in DigitRuns }
        \cup { <<"{", "-">> \o d \o <<"}">> : d \in DigitRuns }
        \cup { <<"{">> \o d \o <<"-", "}">> : d \in DigitRuns }

SetBodies == SeqsUpTo(SetChars, MaxSetBody)

SetTexts ==
    { <<"[">> \o b : b \in SetBodies } \cup { <<"[", "!">> \o b : b \in SetBodies }

LexerIdle ==
    /\ reader = TextReader_new
    /\ lexed = Idle
    /\ tokens = <<>> /\ hir = Idle
    /\ OrdIdle /\ ConvIdle /\ FsaIdle

InitLexer == pc = "start" /\ source_text \in ShortTexts /\ LexerIdle

InitRepetition == pc = "start" /\ source_text \in BlockTexts \cup DigitTexts /\ LexerIdle

InitSet == pc = "start" /\ source_text \in SetTexts /\ LexerIdle

\* one call of Lexer::next_token; the caller may call again after a None
NextToken ==
    /\ pc \in {"start", "lexing", "done"}
    /\ LET call == Lexer_next_token(source_text, reader) IN
          /\ lexed' = [begin |-> reader, res |-> call.res]
          /\ reader' = call.reader
          /\ tokens' = IF call.res = None THEN tokens ELSE Append(tokens, call.res[1])
          /\ pc' = IF call.res = None THEN "done" ELSE "lexing"
    /\ UNCHANGED <<source_text, hir, ordVars, convVars, fsaVars>>

NextLexer == NextToken

SpecLexer == InitLexer /\ [][NextLexer]_vars

SpecRepetition == InitRepetition /\ [][NextLexer]_vars

SpecSet == InitSet /\ [][NextLexer]_vars

\* the last call returned a token
Returned == pc \in {"lexing", "done"} /\ lexed.res # None

\* the result (Ok or Err) inside the token the last call returned
LastResult == lexed.res[1].token

\* the text the last call started at, and the text it left unread
TextAt == SubSeq(source_text, lexed.begin.read + 1, Len(source_text))
TextLeft == SubSeq(source_text, reader.read + 1, Len(source_text))
TextRead == SubSeq(source_text, lexed.begin.read + 1, reader.read)

(***************************************************************************)
(* What a `{`...`}` block says, read off the text without the lexer.       *)
(***************************************************************************)
AllDigits(s) == \A i \in DOMAIN s : is_ascii_digit(s[i])

\* the number a run of decimal digits writes, 0 for the empty run
RECURSIVE DecimalValue(_)
DecimalValue(s) ==
    IF s = <<>> THEN 0
    ELSE DecimalValue(SubSeq(s, 1, Len(s) - 1)) * 10 + DigitValue[s[Len(s)]]

Places(s, c) == { i \in DOMAIN s : s[i] = c }
First(S) == CHOOSE i \in S : \A j \in S : i <= j

\* the text between the `{` the input starts with and the first `}`
BlockBody(s) == SubSeq(s, 2, First(Places(s, "}")) - 1)

IsBlock(s) == s # <<>> /\ s[1] = "{" /\ Places(s, "}") # {}

InRange(s) == AllDigits(s) /\ DecimalValue(s) <= 65535

\* the block is {m}
IsExact(body) == Places(body, "-") = {} /\ InRange(body)

BeforeDash(body) == SubSeq(body, 1, First(Places(body, "-")) - 1)
AfterDash(body) == SubSeq(body, First(Places(body, "-")) + 1, Len(body))

\* the block is {m-n}, either side possibly absent
IsRange(body) ==
    /\ Places(body, "-") # {}
    /\ InRange(BeforeDash(body)) /\ InRange(AfterDash(body))

\* C15: `*`, `+` and `?` give (0, None), (1, None) and (0, Some(1)); {m}
\* gives (m, Some(m)), {m-} gives (m, None), {-n} gives (0, Some(n)), an
\* absent m being 0; {m-n} gives (m, Some(n)) when m <= n and the error
\* InvalidRepetitionRange{min: m, max: n} when m > n; so every Repetition
\* the lexer emits has min <= max when max is present.
C15_RepetitionBounds ==
    Returned =>
        /\ TextAt[1] = "*" => LastResult = Ok(TokRepetition(0, None))
        /\ TextAt[1] = "+" => LastResult = Ok(TokRepetition(1, None))
        /\ TextAt[1] = "?" => LastResult = Ok(TokRepetition(0, Some(1)))
        /\ IsBlock(TextAt) =>
              LET body == BlockBody(TextAt)
                  m == DecimalValue(BeforeDash(body))
                  n == DecimalValue(AfterDash(body))
              IN /\ IsExact(body) =>
                      LastResult = Ok(TokRepetition(DecimalValue(body),
                                                    Some(DecimalValue(body))))
                 /\ IsRange(body) /\ AfterDash(body) = <<>> =>
                      LastResult = Ok(TokRepetition(m, None))
                 /\ IsRange(body) /\ AfterDash(body) # <<>> /\ m <= n =>
                      LastResult = Ok(TokRepetition(m, Some(n)))
                 /\ IsRange(body) /\ AfterDash(body) # <<>> /\ m > n =>
                      LastResult = Err(InvalidRepetitionRange(m, n))
        /\ LastResult[1] = "Ok" /\ LastResult[2][1] = "Repetition"
              /\ LastResult[2][3] # None
              => LastResult[2][2] <= LastResult[2][3][1]

\* {7-2} was lexed and gave InvalidRepetitionRange{min: 7, max: 2}
C15_Witness ==
    /\ Returned
    /\ TextAt = <<"{", "7", "-", "2", "}">>
    /\ LastResult = Err(InvalidRepetitionRange(7, 2))

\* the longest run of digits the text starts with
DigitPrefix(s) ==
    SubSeq(s, 1, Cardinality({ i \in DOMAIN s : AllDigits(SubSeq(s, 1, i)) }))

\* the digits behind the `{` the text starts with, and the digits behind
\* the dash that follows them, if one does
LowerDigits(s) == DigitPrefix(SubSeq(s, 2, Len(s)))
HasDash(s) == Len(s) >= Len(LowerDigits(s)) + 2 /\ s[Len(LowerDigits(s)) + 2] = "-"
UpperDigits(s) == DigitPrefix(SubSeq(s, Len(LowerDigits(s)) + 3, Len(s)))

Overflows(s) ==
    \/ DecimalValue(LowerDigits(s)) > 65535
    \/ HasDash(s) /\ DecimalValue(UpperDigits(s)) > 65535

IsOverflow(res) == res[1] = "Err" /\ res[2][1] = "RangeIntegerOverflow"

\* C16: inside a `{` block a run of digits of value at most 65535 is read
\* as exactly that value, leading zeros included, and a run of a greater
\* value gives RangeIntegerOverflow; no bound is wrapped or truncated.
C16_IntegerExact ==
    Returned /\ TextAt[1] = "{" =>
        /\ IsOverflow(LastResult) <=> Overflows(TextAt)
        /\ LastResult[1] = "Ok" =>
              /\ LastResult[2][2] = DecimalValue(LowerDigits(TextAt))
              /\ LastResult[2][3] # None =>
                    LastResult[2][3][1] =
                        IF HasDash(TextAt) THEN DecimalValue(UpperDigits(TextAt))
                        ELSE DecimalValue(LowerDigits(TextAt))
              /\ HasDash(TextAt) =>
                    (LastResult[2][3] = None <=> UpperDigits(TextAt) = <<>>)

\* {65536} was lexed and gave RangeIntegerOverflow
C16_Witness ==
    /\ Returned
    /\ TextAt = <<"{", "6", "5", "5", "3", "6", "}">>
    /\ IsOverflow(LastResult)

(***************************************************************************)
(* Where the input ends, read off the text without the lexer.              *)
(***************************************************************************)
\* the Position of character i of the input
PositionAt(i) ==
    LET before == SubSeq(source_text, 1, i - 1)
        breaks == Places(before, "\n")
        last == IF breaks = {} THEN 0 ELSE CHOOSE b \in breaks : \A c \in breaks : c <= b
    IN [row |-> 1 + Cardinality(breaks), col |-> i - last,
        index |-> ByteOffset(source_text, i)]

\* the construct of a set body that is open where the input ends, the body
\* read from character i of the input: <<"set">>, <<"subexpression", the
\* place of its `<`>>, or <<"none">> when the set is closed or an escape
\* is wrong before the end
RECURSIVE OpenInSet(_)
OpenInSet(i) ==
    IF i > Len(source_text) THEN <<"set">>
    ELSE IF source_text[i] = "]" THEN <<"none">>
    ELSE IF source_text[i] = "<"
    THEN LET closing == { j \in DOMAIN source_text : j > i /\ source_text[j] = ">" }
         IN IF closing = {} THEN <<"subexpression", i>> ELSE OpenInSet(First(closing) + 1)
    ELSE IF source_text[i] = ESCAPE
    THEN IF i = Len(source_text) THEN <<"set">>
         ELSE IF source_text[i + 1] \in {ESCAPE, "<", "]"} THEN OpenInSet(i + 2)
         ELSE <<"none">>
    ELSE OpenInSet(i + 1)

\* the input ends inside the `{` block the text starts with: behind the
\* brace stand only bounds within u16 and at most one dash between them
EndsInBlock(s) ==
    LET body == SubSeq(s, 2, Len(s))
    IN \/ InRange(body)
       \/ IsRange(body) /\ Cardinality(Places(body, "-")) = 1

\* C17: when the input ends inside a `[`, `<` or `{` construct the lexer
\* gives UnclosedSet, UnclosedSubexpression or UnclosedRepetition, with the
\* position of the character that opened the construct; for a `<` opened
\* inside a set that is the position of the `<`, not of the `[`.
C17_UnclosedAnchored ==
    Returned =>
        LET open == lexed.begin.read + 1 IN
        /\ TextAt[1] = "<" /\ Places(TextAt, ">") = {} =>
              LastResult = Err(UnclosedSubexpression(PositionAt(open)))
        /\ TextAt[1] = "{" /\ EndsInBlock(TextAt) =>
              LastResult = Err(UnclosedRepetition(PositionAt(open)))
        /\ TextAt[1] = "[" /\ OpenInSet(open + 1) = <<"set">> =>
              LastResult = Err(UnclosedSet(PositionAt(open)))
        /\ TextAt[1] = "[" /\ OpenInSet(open + 1)[1] = "subexpression" =>
              LastResult = Err(UnclosedSubexpression(PositionAt(OpenInSet(open + 1)[2])))

\* behind a letter of two bytes, [< was lexed and gave UnclosedSubexpression
\* at the `<`
C17_Witness ==
    /\ Returned
    /\ source_text = <<"U+00E9", "[", "<">> /\ lexed.begin.read = 1
    /\ LastResult = Err(UnclosedSubexpression([row |-> 1, col |-> 3, index |-> 3]))

\* the characters the syntax reserves, as the escape rule lists them
ReservedPunctuation ==
    {"_", "*", "+", "?", "{", "}", "\\", "[", "]", "|", "(", ")", "<", ">"}

\* C18: outside a set a backslash followed by X gives a Sequence whose text
\* is the one character X exactly when X is one of _ * + ? { } \ [ ] | ( )
\* < >; followed by another character or by the end of the input it gives
\* InvalidEscape.  Either way the token consumes exactly the backslash and
\* X, when there is one.
C18_EscapedOne ==
    Returned /\ TextAt[1] = "\\" =>
        LET X == IF Len(TextAt) >= 2 THEN Some(TextAt[2]) ELSE None IN
        /\ (X # None /\ X[1] \in ReservedPunctuation)
              <=> LastResult = Ok(TokSequence(X))
        /\ ~(X # None /\ X[1] \in ReservedPunctuation)
              => LastResult[1] = "Err" /\ LastResult[2][1] = "InvalidEscape"
                   /\ LastResult[2][3] = X
        /\ reader.read = lexed.begin.read + 1 + Len(X)
        /\ lexed.res[1].slice = <<"\\">> \o X

\* between two letters, \* was lexed and gave the Sequence "*", the letter
\* behind it left unread
C18_Witness ==
    /\ Returned
    /\ source_text = <<"a", "\\", "*", "a">> /\ lexed.begin.read = 1
    /\ LastResult = Ok(TokSequence(<<"*">>))
    /\ reader.read = 3

\* what the body of a set says, read off text s from character i on:
\* <<"members", the members in source order>>, <<"InvalidSetEscape", the
\* character behind the backslash>>, or <<"unclosed">>
RECURSIVE SetReading(_, _, _)
SetReading(s, i, members) ==
    IF i > Len(s) THEN <<"unclosed">>
    ELSE IF s[i] = "]" THEN <<"members", members>>
    ELSE IF s[i] = "<"
    THEN LET closing == { j \in DOMAIN s : j > i /\ s[j] = ">" }
         IN IF closing = {} THEN <<"unclosed">>
            ELSE SetReading(s, First(closing) + 1,
                            Append(members, Category(SubSeq(s, i + 1, First(closing) - 1))))
    ELSE IF s[i] = "\\"
    THEN IF i = Len(s) THEN <<"unclosed">>
         ELSE IF s[i + 1] \in {"\\", "<", "]"}
         THEN SetReading(s, i + 2, Append(members, Character(s[i + 1])))
         ELSE <<"InvalidSetEscape", s[i + 1]>>
    ELSE SetReading(s, i + 1, Append(members, Character(s[i])))

\* C19: a `[`...`]` block gives NegatedSet exactly when `!` stands right
\* behind the `[`, and Set otherwise; the members stand in source order,
\* <name> as Category(name), a backslash followed by \, < or ] as that
\* Character, every other character before the closing `]` as a Character
\* (a `[`, and a `!` that is not the first, included); a backslash followed
\* by another character gives InvalidSetEscape.
C19_SetMembers ==
    Returned /\ TextAt[1] = "[" =>
        LET negated == Len(TextAt) >= 2 /\ TextAt[2] = "!"
            reading == SetReading(TextAt, IF negated THEN 3 ELSE 2, <<>>)
        IN /\ reading[1] = "members" =>
                LastResult = Ok(IF negated THEN TokNegatedSet(reading[2])
                                ELSE TokSet(reading[2]))
           /\ reading[1] = "InvalidSetEscape" =>
                /\ LastResult[1] = "Err" /\ LastResult[2][1] = "InvalidSetEscape"
                /\ LastResult[2][3] = reading[2]
           /\ LastResult[1] = "Ok" =>
                /\ reading[1] = "members"
                /\ LastResult[2][1] = "NegatedSet" <=> negated
                /\ LastResult[2][1] = "Set" <=> ~negated

\* [!<a>] was lexed and gave the NegatedSet of the category a
C19_Witness ==
    /\ Returned
    /\ TextAt = <<"[", "!", "<", "a", ">", "]">>
    /\ LastResult = Ok(TokNegatedSet(<<Category(<<"a">>)>>))

\* the characters that are not literal text
NotLiteral == {"_", "*", "+", "?", "(", ")", "|", "{", "[", "<", "\\"}

\* the longest run of literal text the text starts with
LiteralRun(s) ==
    SubSeq(s, 1, Cardinality({ i \in DOMAIN s :
                                 \A j \in 1..i : s[j] \notin NotLiteral }))

\* C20: a Sequence that starts at an unescaped literal character covers the
\* longest literal run: its text is the slice of the token, holds none of
\* _ * + ? ( ) | { [ < \, and is followed by the end of the input or by one
\* of those characters; the cursor has moved by the characters of the run.
C20_MaximalRun ==
    Returned /\ TextAt[1] \notin NotLiteral =>
        /\ LastResult = Ok(TokSequence(LiteralRun(TextAt)))
        /\ lexed.res[1].slice = LastResult[2][2]
        /\ \A i \in DOMAIN LastResult[2][2] : LastResult[2][2][i] \notin NotLiteral
        /\ TextLeft = <<>> \/ TextLeft[1] \in NotLiteral
        /\ reader.read = lexed.begin.read + Len(LastResult[2][2])
        /\ reader.position = PositionAt(reader.read + 1)

\* a, } and a two-byte letter followed by * were lexed and gave the Sequence of the three characters
C20_Witness ==
    /\ Returned
    /\ source_text = <<"a", "}", "U+00E9", "*", "a">> /\ lexed.begin.read = 0
    /\ LastResult = Ok(TokSequence(<<"a", "}", "U+00E9">>))
    /\ reader.read = 3

(***************************************************************************)
(* Specification of the TextReader alone: an input is drawn and read_next  *)
(* is called, character after character and again at the end.             *)
(* pc: "read" while characters were returned, "end" once None was.         *)
(* lexed: [begin |-> the reader before the call, res |-> what it returned] *)
(***************************************************************************)
InitReader == pc = "read" /\ source_text \in ShortTexts /\ LexerIdle

\* one call of TextReader::read_next (Iterator::next)
ReadNext ==
    /\ pc \in {"read", "end"}
    /\ lexed' = [begin |-> reader, res |-> TextReader_peek(source_text, reader)]
    /\ reader' = TextReader_next(source_text, reader)
    /\ pc' = IF TextReader_peek(source_text, reader) = None THEN "end" ELSE "read"
    /\ UNCHANGED <<source_text, tokens, hir, ordVars, convVars, fsaVars>>

NextReader == ReadNext

SpecReader == InitReader /\ [][NextReader]_vars

\* the characters consumed so far
Consumed == SubSeq(source_text, 1, reader.read)

\* the bytes a character takes in UTF-8, as the input alphabet has them
Utf8Width(c) == IF c = "U+00E9" THEN 2 ELSE 1

RECURSIVE SumWidths(_)
SumWidths(s) ==
    IF s = <<>> THEN 0 ELSE Utf8Width(s[1]) + SumWidths(SubSeq(s, 2, Len(s)))

\* the characters consumed since the last newline
SinceNewline(s) ==
    Cardinality({ i \in DOMAIN s : \A j \in i..Len(s) : s[j] # "\n" })

\* C21: from the default Position, after any characters were consumed,
\* row = 1 + the newlines consumed, col = 1 + the characters consumed since
\* the last newline, index = the sum of their UTF-8 widths; reading at the
\* end of the input returns None and leaves the position unchanged.
C21_PositionTracks ==
    pc \in {"read", "end"} =>
        /\ reader.position.row = 1 + Cardinality(Places(Consumed, "\n"))
        /\ reader.position.col = 1 + SinceNewline(Consumed)
        /\ reader.position.index = SumWidths(Consumed)
        /\ pc = "end" =>
              /\ lexed.res = None
              /\ lexed.begin.read = Len(source_text)
              /\ reader = lexed.begin

\* a letter, a newline and a two-byte letter were consumed, and the read at
\* the end returned None
C21_Witness ==
    /\ pc = "end"
    /\ source_text = <<"a", "\n", "U+00E9">>
    /\ reader.position = [row |-> 2, col |-> 2, index |-> 4]
    /\ lexed.res = None

(***************************************************************************)
(* What a terminal stream says about repetitions, read off the stream.     *)
(***************************************************************************)
IsTermToken(t) == t[1] \in {"Sequence", "AnyChar", "Set", "NegatedSet", "Subexpression"}
IsRepetitionToken(t) == t[1] = "Repetition"

\* the term a terminal stands for
TermOf(t) ==
    CASE t[1] = "Sequence" -> HIR_Sequence(t[2])
      [] t[1] = "AnyChar" -> HIR_AnyChar
      [] t[1] = "Set" -> HIR_Set(t[2])
      [] t[1] = "NegatedSet" -> HIR_NegatedSet(t[2])
      [] t[1] = "Subexpression" -> HIR_SubRegex(t[2])

\* a stream of terms and repetitions that starts with a term
IsFlat(s) ==
    /\ s # <<>> /\ IsTermToken(s[1])
    /\ \A i \in DOMAIN s : IsTermToken(s[i]) \/ IsRepetitionToken(s[i])

\* the terms of a flat stream: each repetition stands around the term before it
RECURSIVE TermsOf(_)
TermsOf(s) ==
    IF s = <<>> THEN <<>>
    ELSE LET front == TermsOf(SubSeq(s, 1, Len(s) - 1))
             t == s[Len(s)]
         IN IF IsRepetitionToken(t)
            THEN [front EXCEPT ![Len(front)] = HIR_Repetition(front[Len(front)], t[2], t[3])]
            ELSE Append(front, TermOf(t))

\* one term as it is, several as a Concatenation
Together(terms) == IF Len(terms) = 1 THEN terms[1] ELSE HIR_Concatenation(terms)

\* h inside the repetitions of r, the first innermost
RECURSIVE Repeated(_, _)
Repeated(h, r) ==
    IF r = <<>> THEN h
    ELSE Repeated(HIR_Repetition(h, r[1][2], r[1][3]), SubSeq(r, 2, Len(r)))

\* no term stands before terminal i in its group or alternative, and nothing
\* before it stops the parser: only terms, `(` and `|` come before
StandsAlone(s, i) ==
    /\ IsRepetitionToken(s[i])
    /\ i = 1 \/ s[i - 1] \in {TokLParenthesis, TokAlternation}
    /\ \A j \in 1..(i - 1) :
          IsTermToken(s[j]) \/ s[j] \in {TokLParenthesis, TokAlternation}

\* C22: a Repetition terminal replaces the term produced last in the current
\* group or alternative by the Repetition of that term and leaves the earlier
\* terms as they are; with no term produced yet (at the start, right after
\* `(`, right after `|`) the parse fails with StandaloneRepetition.
C22_RepetitionWrapsLast ==
    pc = "done" =>
        /\ IsFlat(tokens) => hir = Ok(Together(TermsOf(tokens)))
        /\ \A i, j \in DOMAIN tokens :
              LET group == SubSeq(tokens, 2, i - 1)
                  reps == SubSeq(tokens, i + 1, Len(tokens))
                  left == SubSeq(tokens, 1, j - 1)
                  right == SubSeq(tokens, j + 1, Len(tokens))
              IN /\ ( /\ tokens[1] = TokLParenthesis /\ tokens[i] = TokRParenthesis
                      /\ IsFlat(group)
                      /\ \A k \in DOMAIN reps : IsRepetitionToken(reps[k]) )
                        => hir = Ok(Repeated(Together(TermsOf(group)), reps))
                 /\ (tokens[j] = TokAlternation /\ IsFlat(left) /\ IsFlat(right))
                        => hir = Ok(HIR_Alternation(<<Together(TermsOf(left)),
                                                       Together(TermsOf(right))>>))
                 /\ StandsAlone(tokens, i) => hir = Err("StandaloneRepetition")

\* a Sequence, an AnyChar and a repetition were parsed: the repetition stands
\* around the AnyChar alone
C22_Witness ==
    /\ pc = "done"
    /\ tokens = <<TokSequence("a"), TokAnyChar, TokRepetition(0, None)>>
    /\ hir = Ok(HIR_Concatenation(<<HIR_Sequence("a"),
                                     HIR_Repetition(HIR_AnyChar, 0, None)>>))

\* the parentheses of the first n terminals: how many `(` are still open
OpenAt(s, n) ==
    Cardinality({ j \in 1..n : s[j] = TokLParenthesis })
        - Cardinality({ j \in 1..n : s[j] = TokRParenthesis })

\* terminal i is a `)` that closes nothing, and nothing before it stops the
\* parser: no lexical error, no repetition without a term, no earlier such `)`
UnmatchedRParenthesis(s, i) ==
    /\ s[i] = TokRParenthesis /\ OpenAt(s, i - 1) = 0
    /\ \A j \in 1..(i - 1) :
          /\ s[j] # TokErr
          /\ OpenAt(s, j) >= 0
          /\ IsRepetitionToken(s[j]) =>
                j > 1 /\ s[j - 1] \notin {TokLParenthesis, TokAlternation}

\* C23: parse_regex returns Ok(HIR) or a structured Err for every finite
\* terminal stream and never crashes; a `(` without its `)` before the end
\* is reported as an error value, a `)` that closes nothing as
\* UnexpectedRParenthesis.
C23_AlwaysResult ==
    pc = "done" =>
        /\ hir[1] \in {"Ok", "Err"}
        /\ OpenAt(tokens, Len(tokens)) > 0 => hir[1] = "Err"
        /\ \A i \in DOMAIN tokens :
              UnmatchedRParenthesis(tokens, i) => hir = Err("UnexpectedRParenthesis")

\* automaton a is the chain of the literal rule: one state per character with
\* one transition, on that character to the next state, and a last state that
\* alone carries the token and has no transitions (states counted from 0)
LiteralChain(rule, a) ==
    LET n == Len(rule[2]) IN
    /\ Len(a.states) = n + 1
    /\ \A i \in 0..(n - 1) :
          /\ DOMAIN a.states[i + 1].transitions = {Some(Character(rule[2][i + 1]))}
          /\ a.states[i + 1].transitions[Some(Character(rule[2][i + 1]))] = {i + 1}
          /\ a.states[i + 1].token = None
    /\ a.states[n + 1].token = Some(rule[1])
    /\ DOMAIN a.states[n + 1].transitions = {}

\* create_automata has run over the rules
TokensBuilt ==
    /\ pc \in {"done", "united", "determinized"}
    /\ automaton.by \in {"turn_lexer_derive", "create_minimal_automaton"}

\* C24: FSA::from_token returns an error exactly when the literal source is
\* empty; for a source of n characters it returns n + 1 states, state i < n
\* with one transition, on Character(source[i]) to {i + 1}, and only state n
\* with the token and without transitions.
C24_LiteralChain ==
    TokensBuilt =>
        /\ IsErr(automaton.output) <=> \E i \in DOMAIN sources : sources[i][2] = <<>>
        /\ ~IsErr(automaton.output) =>
              /\ Len(automaton.inputs) = Len(sources)
              /\ \A i \in DOMAIN sources : LiteralChain(sources[i], automaton.inputs[i])

\* the rule T1 = "ag" was turned into a chain of three states
C24_Witness ==
    /\ TokensBuilt
    /\ sources = << <<"T1", <<"a", "g">>>> >>
    /\ ~IsErr(automaton.output)
    /\ Len(automaton.inputs[1].states) = 3

\* the fragment mir_to_fsa_vec makes of a leaf
LeafFragment(leaf) == mir_to_fsa_vec(leaf).vec[1]

\* the transitions a state had inside its fragment, other than the epsilon
\* transition compile itself puts on the last state of a fragment
OwnKeys(fragment, s) ==
    { k \in DOMAIN fragment.states[s].transitions : k # None }

\* C25: when FSA::compile flattens a list of fragments, every transition
\* target stored inside a fragment that k states precede is increased by k:
\* each transition of the flattened automaton points at the state that was
\* its target inside its own fragment.  Stated for the fragments of a
\* Concatenation of leaves.
C25_TargetsShifted ==
    (pc = "done" /\ mir[1] = "Concatenation" /\ ~IsPanic(fsa)) =>
        LET fragments == [i \in DOMAIN mir[2] |-> LeafFragment(mir[2][i])] IN
        \A i \in DOMAIN fragments : \A s \in DOMAIN fragments[i].states :
            LET k == StatesBefore(fragments, i - 1) IN
            \A key \in OwnKeys(fragments[i], s) :
                /\ key \in DOMAIN fsa.states[k + s].transitions
                /\ fsa.states[k + s].transitions[key]
                      = { t + k : t \in fragments[i].states[s].transitions[key] }

\* the automaton from_mir_composite makes of one alternative
AlternativeFragment(m) == from_mir_composite(m)

\* C26: in the fragment built for Alternation(list), state 0 is a new entry
\* state whose only transition is an epsilon transition to exactly the entry
\* states of the alternatives, the last state is a new exit state without
\* transitions, and the last state of every alternative has an epsilon
\* transition to that new exit state.
C26_AlternationShape ==
    (pc = "done" /\ mir[1] = "Alternation" /\ ~IsPanic(fsa)) =>
        LET alternatives == [i \in DOMAIN mir[2] |-> AlternativeFragment(mir[2][i])]
            n == Len(alternatives)
            exit == StatesBefore(alternatives, n) + 1
        IN /\ Len(fsa.states) = exit + 1
           /\ DOMAIN fsa.states[1].transitions = {None}
           /\ fsa.states[1].transitions[None]
                 = { 1 + StatesBefore(alternatives, i - 1) : i \in 1..n }
           /\ DOMAIN fsa.states[exit + 1].transitions = {}
           /\ \A i \in 1..n :
                 LET last == StatesBefore(alternatives, i) IN
                 /\ None \in DOMAIN fsa.states[last + 1].transitions
                 /\ exit \in fsa.states[last + 1].transitions[None]

\* the states reached from the states S by following transitions of any key
RECURSIVE FsaReachable(_, _)
FsaReachable(states, S) ==
    LET T == S \cup UNION { UNION { states[s + 1].transitions[k] :
                                      k \in DOMAIN states[s + 1].transitions } :
                            s \in { t \in S : t + 1 \in DOMAIN states } }
    IN IF T = S THEN S ELSE FsaReachable(states, T)

\* no Alternation and no Concatenation of the tree has an empty list
RECURSIVE NoEmptyList(_)
NoEmptyList(m) ==
    CASE m[1] \in {"Alternation", "Concatenation"} ->
            m[2] # <<>> /\ \A i \in DOMAIN m[2] : NoEmptyList(m[2][i])
      [] m[1] = "Repetition" -> NoEmptyList(m[2])
      [] OTHER -> TRUE

\* C27: for every MIR tree the automaton FSA::from_mir returns has every
\* transition target within bounds, and its last state, the one carrying the
\* token, is reachable from state 0 by following transitions.
C27_ValidAndReachable ==
    (pc = "done" /\ NoEmptyList(mir) /\ ~IsPanic(fsa)) =>
        /\ TargetsValid(fsa)
        /\ fsa.states[Len(fsa.states)].token # None
        /\ Len(fsa.states) - 1 \in FsaReachable(fsa.states, {0})

\* C28: remove_unreachable_states terminates on every non-empty DFA whose
\* transition targets are valid, those with self-loops or cycles reachable
\* from state 0 included.
C28_Terminates ==
    (pc = "start" /\ sources.states # <<>>) ~> (pc = "done")

(***************************************************************************)
(* Specification SpecExits: the Repetition arm of FSA::mir_to_fsa_vec with *)
(* bounds at the top of u16.  The max + 1 copies of the body are held by   *)
(* their number of states only; the exit loop runs one turn per step.      *)
(* A usize is held by its representative: a negative n stands for 2^w + n. *)
(***************************************************************************)
LongBodies ==
    MirLeaves \cup { MIR_Concatenation(l) : l \in MirLists \ {<<>>} }

\* min <= max, both within MaxBelow of u16::MAX
LongBounds ==
    { r \in ((U16_MAX - MaxBelow)..U16_MAX) \X ((U16_MAX - MaxBelow)..U16_MAX) :
        r[1] <= r[2] }

InitExits ==
    /\ pc = "start"
    /\ mir \in { MIR_Repetition(b, r[1], Some(r[2])) : b \in LongBodies, r \in LongBounds }
    /\ fsa = Idle
    /\ sources = Idle /\ automaton = Idle /\ dfsa = Idle /\ prune = Idle
    /\ OrdIdle /\ ParseIdle /\ ConvIdle

\* lines 65-77: len, the limit + 1 copies, compile, last_state; the build
\* either checks integer overflow (a debug build) or wraps (a release build)
ExitsStart ==
    /\ pc = "start"
    /\ \E overflow_checks \in BOOLEAN :
        LET body == mir_to_fsa_vec(mir[2])
            len  == StatesBefore(body.vec, Len(body.vec))
        IN fsa' = [overflow_checks |-> overflow_checks,
                   len        |-> len,
                   last_state |-> (mir[4][1] + 1) * len,
                   i          |-> mir[3],
                   exits      |-> {}]
    /\ pc' = "exits"
    /\ UNCHANGED <<mir, sources, automaton, dfsa, prune, ordVars, parseVars, convVars>>

\* lines 80-86, one turn of `for i in *min..=*max`
exit_turn(locals) ==
    LET state == exit_of_copy(locals.i, locals.len) IN
    IF locals.overflow_checks /\ locals.i + 1 > U16_MAX
    THEN PanicWith("attempt to add with overflow")
    ELSE IF locals.overflow_checks /\ state < 0
    THEN PanicWith("attempt to subtract with overflow")
    ELSE IF ~(0 <= state /\ state < locals.last_state)
    THEN PanicWith("index out of bounds")
    ELSE [locals EXCEPT !.exits = @ \cup {state}, !.i = @ + 1]

ExitTurn ==
    /\ pc = "exits"
    /\ fsa.i <= mir[4][1]
    /\ fsa' = exit_turn(fsa)
    /\ pc' = IF IsPanic(exit_turn(fsa)) THEN "done" ELSE "exits"
    /\ UNCHANGED <<mir, sources, automaton, dfsa, prune, ordVars, parseVars, convVars>>

\* lines 98-100: the range is exhausted, the new last state is pushed
ExitsEnd ==
    /\ pc = "exits"
    /\ fsa.i > mir[4][1]
    /\ fsa' = [fsa EXCEPT !.last_state = @ + 1]
    /\ pc' = "done"
    /\ UNCHANGED <<mir, sources, automaton, dfsa, prune, ordVars, parseVars, convVars>>

NextExits == ExitsStart \/ ExitTurn \/ ExitsEnd

SpecExits == InitExits /\ [][NextExits]_vars

\* C29: compiling a Repetition with min <= max <= 65535 never overflows its
\* index arithmetic: every turn of the exit loop computes (i + 1) * len - 1
\* without a panic and the value is a state of the automaton, also for
\* max = 65535.
C29_NoOverflow ==
    pc \in {"exits", "done"} =>
        /\ ~IsPanic(fsa)
        /\ \A state \in fsa.exits : 0 <= state /\ state < fsa.last_state

(***************************************************************************)
(* The token stream of one input: its spans and slices, call after call.   *)
(***************************************************************************)
\* the caller keeps calling: a call that can change something is made in the
\* end.  This is WF_vars(NextLexer) with its enabling condition written out:
\* a call changes the state exactly while pc # "done" (a call after a None
\* returns None again and leaves the reader where it is)
SpecLexerFair ==
    SpecLexer /\ ([]<>(pc = "done") \/ []<><<NextLexer>>_vars)

RECURSIVE Slices(_)
Slices(ts) == IF ts = <<>> THEN <<>> ELSE ts[1].slice \o Slices(SubSeq(ts, 2, Len(ts)))

SpanStart(t) == t.position[1]
SpanEnd(t) == t.position[2]

\* the spans of the tokens returned so far tile the text read so far
Tiling ==
    /\ \A k \in DOMAIN tokens :
          /\ tokens[k].slice # <<>>
          /\ SpanEnd(tokens[k]).index > SpanStart(tokens[k]).index
    /\ tokens # <<>> => SpanStart(tokens[1]) = [row |-> 1, col |-> 1, index |-> 0]
    /\ \A k \in 1..(Len(tokens) - 1) : SpanStart(tokens[k + 1]) = SpanEnd(tokens[k])
    /\ Slices(tokens) = Consumed
    /\ (pc = "done" /\ tokens # <<>>) =>
          SpanEnd(tokens[Len(tokens)]).index = SumWidths(source_text)
    /\ pc = "done" => Slices(tokens) = source_text

\* C30: repeated calls of next_token yield finitely many tokens and then
\* None on every later call; every token consumes at least one character,
\* the first span starts at row 1, col 1, index 0, every span starts where
\* the span before it ended, the last span ends at the end of the input and
\* the slices in order make up the input, error tokens included.
C30_TokensCoverInput ==
    /\ [](pc \in {"lexing", "done"} => Tiling)
    /\ <>[](pc = "done" /\ lexed.res = None)

\* an escape error between two literal tokens, the input read to its end
C30_Witness ==
    /\ pc = "done" /\ lexed.res = None
    /\ source_text = <<"a", ESCAPE, "-", "U+00E9">>
    /\ Len(tokens) = 3
    /\ tokens[2].token[1] = "Err"
    /\ tokens[2].slice = <<ESCAPE, "-">>
    /\ SpanStart(tokens[3]) = [row |-> 1, col |-> 4, index |-> 3]
    /\ SpanEnd(tokens[3]) = [row |-> 1, col |-> 5, index |-> 5]

====
